---- MODULE Spec2Model ----
(***************************************************************************)
(* A model of the fitness tracker: the persisted store (profiles,         *)
(* workouts, workout_exercises, user_goals), the Workouts view with its    *)
(* WorkoutForm, the Goals view and the Dashboard.  Every request to the    *)
(* store is a step of its own, so that the steps of concurrent handlers    *)
(* (of one browser tab or of several) interleave as the awaits of the     *)
(* code allow.  A request that fails is one the store did not apply.       *)
(***************************************************************************)
EXTENDS Integers, Sequences, FiniteSets, TLC

\* ------------------------------------------------------------ bounds
\* The number of user inputs (clicks, typed values) of one behaviour.
MaxInputs == 5

\* ------------------------------------------------------------ data
AllTabs == {1, 2}
\* The one authenticated identity of the sessions.
User == "u1"
\* The entry of a JS array that holds no number (a hole, undefined, null).
Null == -1
\* The exercise catalog: name -> category, as seeded by the migration.
Catalog ==
  [n \in {"Push-ups", "Squats", "Pull-ups", "Bench Press", "Deadlift",
          "Plank", "Lunges", "Burpees"} |->
     CASE n \in {"Push-ups", "Squats", "Pull-ups", "Lunges"} -> "Bodyweight"
       [] n \in {"Bench Press", "Deadlift"} -> "Weightlifting"
       [] n = "Plank" -> "Core"
       [] OTHER -> "Cardio"]

\* The clock: ticks since day 0; a day has TicksPerDay ticks.
TicksPerDay == 4

VARIABLES
  profiles,           \* store: the identities that have a profile row
  workouts,           \* store: the workouts rows
  workout_exercises,  \* store: the workout_exercises rows
  user_goals,         \* store: the user_goals rows
  exercises,          \* store: the exercises rows, name -> category
  nextId,             \* the ids the store's gen_random_uuid() has handed out
  now,                \* the clock, in ticks
  auth,               \* per tab: what useAuth gives (loading, user)
  currentView,        \* per tab: the view the App shell shows
  pv,                 \* per tab: the state of the Profile view
  reply,              \* the answer of the store to the last direct request
  wv,                 \* per tab: the state of the Workouts view
  wf,                 \* per tab: the state of the mounted WorkoutForm
  sv,                 \* per tab: the handleSave call in flight
  alertMsg,           \* per tab: the last alert() raised by handleSave
  dialog,             \* per tab: the last confirm() shown and its answer
  gv,                 \* per tab: the state of the Goals view
  dash,               \* per tab: the state of the Dashboard
  inputs              \* the number of user inputs so far

vars == <<profiles, workouts, workout_exercises, user_goals, exercises,
          nextId, now, auth, currentView, pv, reply, wv, wf, sv, alertMsg,
          dialog, gv, dash, inputs>>
store == <<profiles, workouts, workout_exercises, user_goals, exercises,
           nextId>>
\* What the steps of the Workouts, Goals and Dashboard views leave alone.
session == <<auth, currentView, pv, reply>>

\* ------------------------------------------------------------ helpers
Last(s) == s[Len(s)]
Front(s) == SubSeq(s, 1, Len(s) - 1)
RemoveAt(s, i) == SubSeq(s, 1, i - 1) \o SubSeq(s, i + 1, Len(s))
Range(s) == {s[i] : i \in DOMAIN s}
\* All orders in which a query with no total ORDER BY can return the set S.
Perms(S) ==
  {s \in [1..Cardinality(S) -> S] : \A i, j \in DOMAIN s : i # j => s[i] # s[j]}
Min(a, b) == IF a <= b THEN a ELSE b
\* The smallest positive number not in S (a fresh object identity).
Fresh(S) == CHOOSE n \in 1..(Cardinality(S) + 1) : n \notin S
Today == now \div TicksPerDay

\* ------------------------------------------------------------ store
\* String.prototype.trim on the names of the model.
Trim(s) == IF s = " " THEN "" ELSE s

RowsOf(id) == {r \in workout_exercises : r.workout_id = id}

\* One element of loadWorkouts' formattedWorkouts.
FormatWorkout(w) ==
  [id |-> w.id, name |-> w.name, date |-> w.date,
   duration_minutes |-> w.duration_minutes,
   exercise_count |-> Cardinality(RowsOf(w.id))]

\* select ... from workouts where user_id = uid order by date desc: every
\* order of the rows that is descending in date.
SelectWorkouts(uid) ==
  {s \in Perms({w \in workouts : w.user_id = uid}) :
     \A i, j \in DOMAIN s : i < j => s[i].date >= s[j].date}

\* A workouts delete whose foreign key does not cascade.
DeleteWorkoutNoCascade(id) ==
  /\ workouts' = {w \in workouts : w.id # id}
  /\ UNCHANGED workout_exercises

\* delete from workouts where id = ..., with ON DELETE CASCADE of the rows.
DeleteWorkoutCascade(id) ==
  /\ workouts' = {w \in workouts : w.id # id}
  /\ workout_exercises' = {r \in workout_exercises : r.workout_id # id}

\* A handleSave that never deletes the old rows.
DeleteRowsOf_Keep(id) == UNCHANGED workout_exercises

\* delete from workout_exercises where workout_id = ...
DeleteRowsOf(id) ==
  workout_exercises' = {r \in workout_exercises : r.workout_id # id}

\* update workouts set name, date, duration_minutes where id = ...: a filter
\* that matches no row changes nothing and is no error.
UpdateWorkout(id, name, date, dur) ==
  workouts' = {IF w.id = id
                 THEN [w EXCEPT !.name = name, !.date = date,
                                !.duration_minutes = dur]
                 ELSE w : w \in workouts}

\* insert into workouts ... select().single(): the row gets a new id; the
\* foreign key of user_id requires the profile row.
CanInsertWorkout(uid) == \E p \in profiles : p.id = uid
InsertWorkout(uid, name, date, dur) ==
  /\ workouts' = workouts \cup
       {[id |-> nextId + 1, user_id |-> uid, name |-> name, date |-> date,
         duration_minutes |-> dur]}
  /\ nextId' = nextId + 1

\* The k-th smallest id no workout_exercises row carries.
KthFreeRowId(k) ==
  LET used == {r.id : r \in workout_exercises}
      free == (1..(Cardinality(used) + k)) \ used
  IN  CHOOSE x \in free : Cardinality({y \in free : y < x}) = k - 1

\* insert into workout_exercises (one statement for the whole array): every
\* row must reference an existing workout and an existing exercise.
CanInsertRows(payload) ==
  \A k \in DOMAIN payload :
    /\ payload[k].workout_id \in {w.id : w \in workouts}
    /\ payload[k].exercise_id \in DOMAIN exercises
InsertRows(payload) ==
  workout_exercises' = workout_exercises \cup
    {[id |-> KthFreeRowId(k), workout_id |-> payload[k].workout_id,
      exercise_id |-> payload[k].exercise_id, sets |-> payload[k].sets,
      reps |-> payload[k].reps, weight |-> payload[k].weight,
      rest_seconds |-> payload[k].rest_seconds] : k \in DOMAIN payload}

\* ------------------------------------------------------------ Workouts view
\* A request of loadWorkouts or loadGoals in flight: sent, or answered with
\* the rows (ok) or with an error (err) and not yet delivered to the view.
\* del is the id of the workout whose delete started the load, else 0.
SentLoad == [st |-> "sent", data |-> <<>>, del |-> 0]

\* WorkoutForm is not mounted.
NoForm ==
  [mounted |-> FALSE, workout |-> <<>>, name |-> "", date |-> 0,
   durationMinutes |-> 0, workoutExercises |-> <<>>, exercises |-> {},
   showExerciseSelector |-> FALSE, searchTerm |-> "", loading |-> FALSE,
   exReq |-> FALSE, weReq |-> FALSE]

\* WorkoutForm's state after mounting with the prop workout (<<>> is no
\* workout): the useState initialisers, and the useEffect that starts
\* loadExercises and, with a workout, loadWorkoutExercises.
MountForm(w) ==
  [NoForm EXCEPT
     !.mounted = TRUE,
     !.workout = w,
     !.name = IF w = <<>> THEN "" ELSE w[1].name,
     !.date = IF w = <<>> THEN Today ELSE w[1].date,
     !.durationMinutes = IF w = <<>> THEN 0 ELSE w[1].duration_minutes,
     !.exReq = TRUE,
     !.weReq = (w # <<>>)]

\* Workouts renders the spinner while loading, else the form when showForm,
\* else the list.
FormShown(v) == v.showForm /\ ~v.loading
ListVisible(t) ==
  currentView[t] = "workouts" /\ ~wv[t].loading /\ ~wv[t].showForm

\* The form after the view's state became v: kept, mounted or unmounted.
FormAfter(v, f) ==
  IF FormShown(v) THEN (IF f.mounted THEN f ELSE MountForm(v.editingWorkout))
  ELSE NoForm

\* A handleSave in flight outlives its form; its setLoading then has no effect.
SaveAfter(v, s) == [s EXCEPT !.live = @ /\ FormShown(v)]

\* loadWorkouts up to its await.
StartLoadWorkouts(v, del) ==
  [v EXCEPT !.loading = TRUE,
            !.loads = Append(@, [SentLoad EXCEPT !.del = del])]

Input == inputs < MaxInputs /\ inputs' = inputs + 1

\* The store answers one loadWorkouts request.
ServeLoadWorkouts(t, i, ok) ==
  /\ i \in DOMAIN wv[t].loads
  /\ wv[t].loads[i].st = "sent"
  /\ \E s \in SelectWorkouts(User) :
       wv' = [wv EXCEPT ![t].loads[i] =
                IF ok THEN [@ EXCEPT
                              !.st = "ok",
                              !.data = [k \in DOMAIN s |-> FormatWorkout(s[k])]]
                      ELSE [@ EXCEPT !.st = "err"]]
  /\ UNCHANGED <<store, now, session, wf, sv, alertMsg, dialog, gv, dash,
                 inputs>>

\* loadWorkouts after its await: setWorkouts on success, setLoading(false).
DeliverLoadWorkouts(t, i) ==
  /\ i \in DOMAIN wv[t].loads
  /\ wv[t].loads[i].st # "sent"
  /\ LET item == wv[t].loads[i]
         v2 == [wv[t] EXCEPT
                  !.workouts = IF item.st = "ok" THEN item.data ELSE @,
                  !.loading = FALSE,
                  !.loads = RemoveAt(@, i)]
     IN  /\ wv' = [wv EXCEPT ![t] = v2]
         /\ wf' = [wf EXCEPT ![t] = FormAfter(v2, @)]
  /\ UNCHANGED <<store, now, session, sv, alertMsg, dialog, gv, dash,
                 inputs>>

\* The New Workout button.
ClickNewWorkout(t) ==
  /\ ListVisible(t)
  /\ Input
  /\ LET v2 == [wv[t] EXCEPT !.showForm = TRUE]
     IN  /\ wv' = [wv EXCEPT ![t] = v2]
         /\ wf' = [wf EXCEPT ![t] = FormAfter(v2, @)]
  /\ UNCHANGED <<store, now, session, sv, alertMsg, dialog, gv, dash>>

\* The edit button of the k-th listed workout.
ClickEditWorkout(t, k) ==
  /\ ListVisible(t)
  /\ k \in DOMAIN wv[t].workouts
  /\ Input
  /\ LET v2 == [wv[t] EXCEPT !.editingWorkout = <<wv[t].workouts[k]>>,
                             !.showForm = TRUE]
     IN  /\ wv' = [wv EXCEPT ![t] = v2]
         /\ wf' = [wf EXCEPT ![t] = FormAfter(v2, @)]
  /\ UNCHANGED <<store, now, session, sv, alertMsg, dialog, gv, dash>>

\* The form's Cancel button (onCancel).
CancelWorkoutForm(t) ==
  /\ currentView[t] = "workouts"
  /\ wf[t].mounted
  /\ Input
  /\ LET v2 == [wv[t] EXCEPT !.showForm = FALSE, !.editingWorkout = <<>>]
     IN  /\ wv' = [wv EXCEPT ![t] = v2]
         /\ wf' = [wf EXCEPT ![t] = FormAfter(v2, @)]
         /\ sv' = [sv EXCEPT ![t] = SaveAfter(v2, @)]
  /\ UNCHANGED <<store, now, session, alertMsg, dialog, gv, dash>>

\* A handleDeleteWorkout that ignores the answer of confirm().
HandleDeleteWorkout_NoConfirm(t, k, answer) ==
  /\ ListVisible(t)
  /\ k \in DOMAIN wv[t].workouts
  /\ Input
  /\ dialog' = [dialog EXCEPT ![t] =
                  [kind |-> "workout", id |-> wv[t].workouts[k].id,
                   answer |-> answer]]
  /\ wv' = [wv EXCEPT ![t].deletes = Append(@, wv[t].workouts[k].id)]
  /\ UNCHANGED <<store, now, session, wf, sv, alertMsg, gv, dash>>

\* handleDeleteWorkout up to its await: confirm(), and the delete request
\* only when the user answered yes.
HandleDeleteWorkout(t, k, answer) ==
  /\ ListVisible(t)
  /\ k \in DOMAIN wv[t].workouts
  /\ Input
  /\ dialog' = [dialog EXCEPT ![t] =
                  [kind |-> "workout", id |-> wv[t].workouts[k].id,
                   answer |-> answer]]
  /\ wv' = [wv EXCEPT ![t].deletes =
              IF answer THEN Append(@, wv[t].workouts[k].id) ELSE @]
  /\ UNCHANGED <<store, now, session, wf, sv, alertMsg, gv, dash>>

\* The store answers a delete of handleDeleteWorkout, and the handler goes
\* on: await loadWorkouts() after a success, console.error after an error.
\* A handleDeleteWorkout that loads the list again after a rejected delete.
DeleteRejected_Reloads(v) == StartLoadWorkouts(v, 0)

\* The catch of handleDeleteWorkout: the error is logged.
DeleteRejected(v) == v

ServeDeleteWorkout(t, i, ok) ==
  /\ i \in DOMAIN wv[t].deletes
  /\ LET v1 == [wv[t] EXCEPT !.deletes = RemoveAt(@, i)]
         v2 == IF ok THEN StartLoadWorkouts(v1, wv[t].deletes[i])
               ELSE DeleteRejected(v1)
     IN  /\ IF ok THEN DeleteWorkoutCascade(wv[t].deletes[i])
                  ELSE UNCHANGED <<workouts, workout_exercises>>
         /\ wv' = [wv EXCEPT ![t] = v2]
         /\ wf' = [wf EXCEPT ![t] = FormAfter(v2, @)]
         /\ sv' = [sv EXCEPT ![t] = SaveAfter(v2, @)]
  /\ UNCHANGED <<profiles, exercises, user_goals, nextId, now, session, alertMsg,
                 dialog, gv, dash, inputs>>

\* ------------------------------------------------------------ WorkoutForm
\* An element of workoutExercises is an object with identity: ref names the
\* object, rref and wref the arrays its reps and weight point to.  Two
\* elements with the same ref are one object, two with the same rref share one
\* reps array: what is written through one is seen through the other.
MapList(list, F(_)) == [k \in DOMAIN list |-> F(list[k])]
MaxOf(S) == IF S = {} THEN 0 ELSE CHOOSE m \in S : \A x \in S : x <= m
UsedRefs(t) ==
  {x.ref : x \in Range(wf[t].workoutExercises) \cup Range(sv[t].list)}
UsedArrays(t) ==
  LET xs == Range(wf[t].workoutExercises) \cup Range(sv[t].list)
  IN  {x.rref : x \in xs} \cup {x.wref : x \in xs}

\* Identities are names only: while no handleSave holds the objects, the
\* form's objects are renamed by their place in the list.
Norm(list, held) ==
  IF held = <<>>
    THEN [k \in DOMAIN list |->
            [list[k] EXCEPT !.ref = k, !.rref = 2 * k - 1, !.wref = 2 * k]]
    ELSE list

\* JS a || b on a number or a missing entry.
OrElse(v, d) == IF v = Null \/ v = 0 THEN d ELSE v
\* JS a[a.length - 1].
LastOf(a) == IF a = <<>> THEN Null ELSE a[Len(a)]
\* JS a.pop().
Pop(a) == IF a = <<>> THEN a ELSE Front(a)
\* JS a[j] = v on a copy of a (j counts from 1 here): the array grows to j,
\* the entries between stay holes.
Put(a, j, v) ==
  [k \in 1..(IF j > Len(a) THEN j ELSE Len(a)) |->
     IF k = j THEN v ELSE IF k <= Len(a) THEN a[k] ELSE Null]

\* The values of an element, without its identity.
Plain(x) ==
  [exercise_id |-> x.exercise_id, sets |-> x.sets, reps |-> x.reps,
   weight |-> x.weight, rest_seconds |-> x.rest_seconds]

\* The store answers loadExercises: setExercises(data) on success.
ServeLoadExercises(t, ok) ==
  /\ wf[t].mounted /\ wf[t].exReq
  /\ wf' = [wf EXCEPT ![t].exReq = FALSE,
                      ![t].exercises = IF ok THEN DOMAIN exercises ELSE @]
  /\ UNCHANGED <<store, now, session, wv, sv, alertMsg, dialog, gv, dash,
                 inputs>>

\* loadWorkoutExercises' formattedExercises, from the rows in the order the
\* store returned them; the objects and arrays are new ones.
FormatRows(t, rows) ==
  LET o == MaxOf({x.ref : x \in Range(sv[t].list)})
      a == MaxOf({x.rref : x \in Range(sv[t].list)}
                 \cup {x.wref : x \in Range(sv[t].list)})
  IN  [k \in DOMAIN rows |->
         [ref |-> o + k, rref |-> a + 2 * k - 1, wref |-> a + 2 * k,
          exercise_id |-> rows[k].exercise_id, sets |-> rows[k].sets,
          reps |-> rows[k].reps, weight |-> rows[k].weight,
          rest_seconds |-> rows[k].rest_seconds]]

\* The store answers loadWorkoutExercises (no ORDER BY: any order).
ServeLoadWorkoutExercises(t, ok) ==
  /\ wf[t].mounted /\ wf[t].weReq
  /\ \E rows \in Perms(RowsOf(wf[t].workout[1].id)) :
       wf' = [wf EXCEPT
                ![t].weReq = FALSE,
                ![t].workoutExercises =
                   IF ok THEN Norm(FormatRows(t, rows), sv[t].list) ELSE @]
  /\ UNCHANGED <<store, now, session, wv, sv, alertMsg, dialog, gv, dash,
                 inputs>>

\* Typing into the name field.
SetName(t, n) ==
  /\ wf[t].mounted
  /\ wf[t].name # n
  /\ Input
  /\ wf' = [wf EXCEPT ![t].name = n]
  /\ UNCHANGED <<store, now, session, wv, sv, alertMsg, dialog, gv, dash>>

\* Picking a date; typing the duration.
SetDate(t, d) ==
  /\ wf[t].mounted
  /\ wf[t].date # d
  /\ Input
  /\ wf' = [wf EXCEPT ![t].date = d]
  /\ UNCHANGED <<store, now, session, wv, sv, alertMsg, dialog, gv, dash>>

SetDurationMinutes(t, m) ==
  /\ wf[t].mounted
  /\ wf[t].durationMinutes # m
  /\ Input
  /\ wf' = [wf EXCEPT ![t].durationMinutes = m]
  /\ UNCHANGED <<store, now, session, wv, sv, alertMsg, dialog, gv, dash>>

\* The Add Exercise button opens the picker.
OpenExerciseSelector(t) ==
  /\ wf[t].mounted
  /\ ~wf[t].showExerciseSelector
  /\ wf' = [wf EXCEPT ![t].showExerciseSelector = TRUE]
  /\ UNCHANGED <<store, now, session, wv, sv, alertMsg, dialog, gv, dash,
                 inputs>>

\* Strings as the sequences of their characters: the names and categories
\* of the catalog and what the user types into the picker's search box.
Chars(s) ==
  CASE s = "Push-ups" -> <<"P", "u", "s", "h", "-", "u", "p", "s">>
    [] s = "Squats" -> <<"S", "q", "u", "a", "t", "s">>
    [] s = "Pull-ups" -> <<"P", "u", "l", "l", "-", "u", "p", "s">>
    [] s = "Bench Press" ->
         <<"B", "e", "n", "c", "h", " ", "P", "r", "e", "s", "s">>
    [] s = "Deadlift" -> <<"D", "e", "a", "d", "l", "i", "f", "t">>
    [] s = "Plank" -> <<"P", "l", "a", "n", "k">>
    [] s = "Lunges" -> <<"L", "u", "n", "g", "e", "s">>
    [] s = "Burpees" -> <<"B", "u", "r", "p", "e", "e", "s">>
    [] s = "Bodyweight" ->
         <<"B", "o", "d", "y", "w", "e", "i", "g", "h", "t">>
    [] s = "Weightlifting" ->
         <<"W", "e", "i", "g", "h", "t", "l", "i", "f", "t", "i", "n", "g">>
    [] s = "Core" -> <<"C", "o", "r", "e">>
    [] s = "Cardio" -> <<"C", "a", "r", "d", "i", "o">>
    [] s = "" -> <<>>
    [] s = "p" -> <<"p">>
    [] s = "BODY" -> <<"B", "O", "D", "Y">>
    [] s = "core" -> <<"c", "o", "r", "e">>
    [] s = "Lift" -> <<"L", "i", "f", "t">>
    [] s = "Ups" -> <<"U", "p", "s">>
    [] s = "zz" -> <<"z", "z">>
    [] s = "pushups" -> <<"p", "u", "s", "h", "u", "p", "s">>

UpperCase ==
  <<"A", "B", "C", "D", "E", "F", "G", "H", "I", "J", "K", "L", "M", "N",
    "O", "P", "Q", "R", "S", "T", "U", "V", "W", "X", "Y", "Z">>
LowerCase ==
  <<"a", "b", "c", "d", "e", "f", "g", "h", "i", "j", "k", "l", "m", "n",
    "o", "p", "q", "r", "s", "t", "u", "v", "w", "x", "y", "z">>

\* A toLowerCase that leaves the string as it is.
ToLowerCase_AsIs(cs) == cs

\* JS s.toLowerCase().
ToLowerCase(cs) ==
  [k \in DOMAIN cs |->
     IF \E i \in DOMAIN UpperCase : UpperCase[i] = cs[k]
       THEN LowerCase[CHOOSE i \in DOMAIN UpperCase : UpperCase[i] = cs[k]]
       ELSE cs[k]]

\* JS h.includes(n).
Includes(h, n) ==
  \E i \in 0..(Len(h) - Len(n)) : SubSeq(h, i + 1, i + Len(n)) = n

\* The predicate of filteredExercises' filter, for the exercise e.
Matches(e, term) ==
  \/ Includes(ToLowerCase(Chars(e)), ToLowerCase(Chars(term)))
  \/ Includes(ToLowerCase(Chars(Catalog[e])), ToLowerCase(Chars(term)))

\* filteredExercises: of the exercises the form fetched, those the picker
\* lists for the search term.
FilteredExercises(exs, term) == {e \in exs : Matches(e, term)}

\* An addExercise that seeds one set.
NewWorkoutExercise_OneSet(t, e) ==
  [ref |-> MaxOf(UsedRefs(t)) + 1,
   rref |-> MaxOf(UsedArrays(t)) + 1,
   wref |-> MaxOf(UsedArrays(t)) + 2,
   exercise_id |-> e, sets |-> 1, reps |-> <<10>>,
   weight |-> <<0>>, rest_seconds |-> 60]

\* The picker's close button.
CloseExerciseSelector(t) ==
  /\ wf[t].mounted
  /\ wf[t].showExerciseSelector
  /\ wf' = [wf EXCEPT ![t].showExerciseSelector = FALSE]
  /\ UNCHANGED <<store, now, session, wv, sv, alertMsg, dialog, gv, dash,
                 inputs>>

\* The picker's search box: setSearchTerm(e.target.value).
SetSearchTerm(t, term) ==
  /\ wf[t].mounted
  /\ wf[t].showExerciseSelector
  /\ term # wf[t].searchTerm
  /\ Input
  /\ wf' = [wf EXCEPT ![t].searchTerm = term]
  /\ UNCHANGED <<store, now, session, wv, sv, alertMsg, dialog, gv, dash>>

\* The element addExercise builds for the exercise e.
NewWorkoutExercise(t, e) ==
  [ref |-> MaxOf(UsedRefs(t)) + 1,
   rref |-> MaxOf(UsedArrays(t)) + 1,
   wref |-> MaxOf(UsedArrays(t)) + 2,
   exercise_id |-> e, sets |-> 3, reps |-> <<10, 10, 10>>,
   weight |-> <<0, 0, 0>>, rest_seconds |-> 60]

\* addExercise, from a click on an exercise the picker lists.
AddExercise(t, e) ==
  /\ wf[t].mounted
  /\ wf[t].showExerciseSelector
  /\ e \in wf[t].exercises /\ Matches(e, wf[t].searchTerm)
  /\ Input
  /\ wf' = [wf EXCEPT
              ![t].workoutExercises =
                 Norm(Append(@, NewWorkoutExercise(t, e)), sv[t].list),
              ![t].showExerciseSelector = FALSE,
              ![t].searchTerm = ""]
  /\ UNCHANGED <<store, now, session, wv, sv, alertMsg, dialog, gv, dash>>

\* updateWorkoutExercise(index, 'rest_seconds', value): a new object at
\* index, spread from the old one, so that it shares the old one's arrays.
UpdateWorkoutExercise(t, i, v) ==
  /\ wf[t].mounted
  /\ i \in DOMAIN wf[t].workoutExercises
  /\ wf[t].workoutExercises[i].rest_seconds # v
  /\ Input
  /\ wf' = [wf EXCEPT
              ![t].workoutExercises =
                 Norm([@ EXCEPT ![i] = [@ EXCEPT
                                          !.ref = MaxOf(UsedRefs(t)) + 1,
                                          !.rest_seconds = v]],
                      sv[t].list)]
  /\ UNCHANGED <<store, now, session, wv, sv, alertMsg, dialog, gv, dash>>

\* updateSetData: the object at exerciseIndex gets a copy of its array with
\* the entry of the set replaced.  The object itself is not copied.
SetDataOn(x, e, field, j, v, tag) ==
  IF x.ref # e.ref THEN x
  ELSE IF field = "reps"
    THEN [x EXCEPT !.reps = Put(e.reps, j, v), !.rref = tag]
    ELSE [x EXCEPT !.weight = Put(e.weight, j, v), !.wref = tag]

UpdateSetData(t, i, j, field, v) ==
  /\ wf[t].mounted
  /\ i \in DOMAIN wf[t].workoutExercises
  /\ LET e == wf[t].workoutExercises[i]
         tag == MaxOf(UsedArrays(t)) + 1
         F(x) == SetDataOn(x, e, field, j, v, tag)
     IN  /\ j \in 1..e.sets
         /\ wf' = [wf EXCEPT ![t].workoutExercises =
                      Norm(MapList(@, F), sv[t].list)]
         /\ sv' = [sv EXCEPT ![t].list = MapList(@, F)]
         /\ LET a == IF field = "reps" THEN e.reps ELSE e.weight
            IN  (IF j <= Len(a) THEN a[j] ELSE Null) # v
  /\ Input
  /\ UNCHANGED <<store, now, session, wv, alertMsg, dialog, gv, dash>>

\* addSet: sets += 1 on the object, push on its two arrays, all in place.
AddSetOn(x, e) ==
  [x EXCEPT
     !.sets = IF x.ref = e.ref THEN @ + 1 ELSE @,
     !.reps = IF x.rref = e.rref
                THEN Append(@, OrElse(LastOf(e.reps), 10)) ELSE @,
     !.weight = IF x.wref = e.wref
                  THEN Append(@, OrElse(LastOf(e.weight), 0)) ELSE @]

AddSet(t, i) ==
  /\ wf[t].mounted
  /\ i \in DOMAIN wf[t].workoutExercises
  /\ Input
  /\ LET e == wf[t].workoutExercises[i]
         F(x) == AddSetOn(x, e)
     IN  /\ wf' = [wf EXCEPT ![t].workoutExercises = MapList(@, F)]
         /\ sv' = [sv EXCEPT ![t].list = MapList(@, F)]
  /\ UNCHANGED <<store, now, session, wv, alertMsg, dialog, gv, dash>>

\* A removeSet without the test of sets > 1.
RemoveSetOn_NoFloor(x, e) ==
  [x EXCEPT
     !.sets = IF x.ref = e.ref THEN @ - 1 ELSE @,
     !.reps = IF x.rref = e.rref THEN Pop(@) ELSE @,
     !.weight = IF x.wref = e.wref THEN Pop(@) ELSE @]

\* removeSet: only above one set; sets -= 1 and pop on the two arrays, in
\* place.
RemoveSetOn(x, e) ==
  IF e.sets > 1
    THEN [x EXCEPT
            !.sets = IF x.ref = e.ref THEN @ - 1 ELSE @,
            !.reps = IF x.rref = e.rref THEN Pop(@) ELSE @,
            !.weight = IF x.wref = e.wref THEN Pop(@) ELSE @]
    ELSE x

RemoveSet(t, i) ==
  /\ wf[t].mounted
  /\ i \in DOMAIN wf[t].workoutExercises
  /\ Input
  /\ LET e == wf[t].workoutExercises[i]
         F(x) == RemoveSetOn(x, e)
     IN  /\ wf' = [wf EXCEPT ![t].workoutExercises = MapList(@, F)]
         /\ sv' = [sv EXCEPT ![t].list = MapList(@, F)]
  /\ UNCHANGED <<store, now, session, wv, alertMsg, dialog, gv, dash>>

\* removeExercise: filter makes a new array of the same objects.
RemoveExercise(t, i) ==
  /\ wf[t].mounted
  /\ i \in DOMAIN wf[t].workoutExercises
  /\ Input
  /\ wf' = [wf EXCEPT ![t].workoutExercises =
              Norm(RemoveAt(@, i), sv[t].list)]
  /\ UNCHANGED <<store, now, session, wv, sv, alertMsg, dialog, gv, dash>>

\* ------------------------------------------------------------ handleSave
\* No handleSave in flight.  After a call ended, the record still tells what
\* it did: mode, the fields and the workoutId it wrote, mapped (the
\* exercises as it mapped them into the insert), log (its requests, in
\* order) and result.
IdleSave ==
  [pc |-> "idle", live |-> FALSE, mode |-> "none", name |-> "", date |-> 0,
   durationMinutes |-> 0, list |-> <<>>, workoutId |-> 0, mapped |-> <<>>,
   payload |-> <<>>, log |-> <<>>, result |-> "none"]

EndSave(s, res) ==
  [s EXCEPT !.pc = "idle", !.live = FALSE, !.list = <<>>, !.payload = <<>>,
            !.result = res]

\* An exerciseInserts that takes reps for weight and weight for reps.
ExerciseInserts_Swapped(list, workoutId) ==
  [k \in DOMAIN list |->
     [workout_id |-> workoutId, exercise_id |-> list[k].exercise_id,
      sets |-> list[k].sets, reps |-> list[k].weight,
      weight |-> list[k].reps, rest_seconds |-> list[k].rest_seconds]]

\* handleSave's exerciseInserts for the list and the workout id.
ExerciseInserts(list, workoutId) ==
  [k \in DOMAIN list |->
     [workout_id |-> workoutId, exercise_id |-> list[k].exercise_id,
      sets |-> list[k].sets, reps |-> list[k].reps,
      weight |-> list[k].weight, rest_seconds |-> list[k].rest_seconds]]

\* A handleSave that always takes the branch of an existing workout.
SaveMode_Update(f) == "update"

\* handleSave's `if (workout)`: the prop the form was mounted with decides.
SaveMode(f) == IF f.workout # <<>> THEN "update" ELSE "create"

\* handleSave up to its first await.  The call keeps the name, date,
\* duration and the workoutExercises array of the render it was made in.
\* The Save button is disabled while the form's loading flag is set; one
\* call per tab is in flight at a time.
HandleSave(t) ==
  /\ wf[t].mounted
  /\ ~wf[t].loading
  /\ sv[t].pc = "idle"
  /\ Input
  /\ IF Trim(wf[t].name) = ""
       THEN /\ alertMsg' = [alertMsg EXCEPT ![t] = "name"]
            /\ UNCHANGED <<wf, sv>>
       ELSE /\ alertMsg' = [alertMsg EXCEPT ![t] = "none"]
            /\ wf' = [wf EXCEPT ![t].loading = TRUE]
            /\ sv' = [sv EXCEPT ![t] =
                 [IdleSave EXCEPT
                    !.pc = SaveMode(wf[t]),
                    !.mode = SaveMode(wf[t]),
                    !.live = TRUE,
                    !.name = wf[t].name,
                    !.date = wf[t].date,
                    !.durationMinutes = wf[t].durationMinutes,
                    !.list = wf[t].workoutExercises,
                    !.workoutId = IF wf[t].workout # <<>>
                                    THEN wf[t].workout[1].id ELSE 0]]
  /\ UNCHANGED <<store, now, session, wv, dialog, gv, dash>>

\* onSave() after the last request, which is Workouts' handleWorkoutSaved:
\* the form is closed and loadWorkouts is started; then the finally.
SaveDone(t, s) ==
  /\ alertMsg' = alertMsg
  /\ sv' = [sv EXCEPT ![t] = EndSave(s, "saved")]
  /\ LET v2 == StartLoadWorkouts([wv[t] EXCEPT !.showForm = FALSE,
                                               !.editingWorkout = <<>>], 0)
     IN  /\ wv' = [wv EXCEPT ![t] = v2]
         /\ wf' = [wf EXCEPT ![t] = FormAfter(v2, @)]

\* After the update/delete or the create: the insert of the exercises when
\* there are any, with the request's body built now; else onSave().
ThenInsert(t, s) ==
  IF Len(s.list) > 0
    THEN /\ sv' = [sv EXCEPT ![t] =
                     [s EXCEPT !.pc = "insert",
                               !.payload = ExerciseInserts(s.list, s.workoutId),
                               !.mapped = MapList(s.list, Plain),
                               !.list = <<>>]]
         /\ wf' = [wf EXCEPT ![t].workoutExercises = Norm(@, <<>>)]
         /\ UNCHANGED <<wv, alertMsg>>
    ELSE SaveDone(t, s)

\* A handleSave that calls onSave() after a failed request.
SaveFailed_CallsOnSave(t, s) == SaveDone(t, s)

\* A handleSave that goes on to the insert after a failed request.
SaveFailed_GoesOn(t, s) == ThenInsert(t, s)

\* The catch and the finally of handleSave after a failed request.
SaveFailed(t, s) ==
  /\ alertMsg' = [alertMsg EXCEPT ![t] = "error"]
  /\ sv' = [sv EXCEPT ![t] = EndSave(s, "error")]
  /\ wf' = [wf EXCEPT ![t].loading = IF s.live THEN FALSE ELSE @,
                      ![t].workoutExercises = Norm(@, <<>>)]
  /\ UNCHANGED wv

\* The store answers the update of the workout row.
ServeSaveUpdate(t, ok) ==
  /\ sv[t].pc = "update"
  /\ LET s == [sv[t] EXCEPT !.log = Append(@, "update")]
     IN  IF ok
           THEN /\ UpdateWorkout(s.workoutId, s.name, s.date,
                                 s.durationMinutes)
                /\ sv' = [sv EXCEPT ![t] = [s EXCEPT !.pc = "delete"]]
                /\ UNCHANGED <<wv, wf, alertMsg>>
           ELSE /\ SaveFailed(t, s)
                /\ UNCHANGED workouts
  /\ UNCHANGED <<profiles, exercises, workout_exercises, user_goals, nextId, now,
                 session, dialog, gv, dash, inputs>>

\* The store answers the delete of the workout's workout_exercises rows.
ServeSaveDelete(t, ok) ==
  /\ sv[t].pc = "delete"
  /\ LET s == [sv[t] EXCEPT !.log = Append(@, "delete")]
     IN  IF ok
           THEN /\ DeleteRowsOf(s.workoutId)
                /\ ThenInsert(t, s)
           ELSE /\ SaveFailed(t, s)
                /\ UNCHANGED workout_exercises
  /\ UNCHANGED <<profiles, exercises, workouts, user_goals, nextId, now, session,
                 dialog, gv, dash, inputs>>

\* The store answers the insert of the new workout row.
ServeSaveCreate(t, ok) ==
  /\ sv[t].pc = "create"
  /\ LET s == [sv[t] EXCEPT !.log = Append(@, "create")]
     IN  IF ok /\ CanInsertWorkout(User)
           THEN /\ InsertWorkout(User, s.name, s.date, s.durationMinutes)
                /\ ThenInsert(t, [s EXCEPT !.workoutId = nextId + 1])
           ELSE /\ SaveFailed(t, s)
                /\ UNCHANGED <<workouts, nextId>>
  /\ UNCHANGED <<profiles, exercises, workout_exercises, user_goals, now, session,
                 dialog, gv, dash, inputs>>

\* The store answers the insert of the workout_exercises rows.
ServeSaveInsert(t, ok) ==
  /\ sv[t].pc = "insert"
  /\ LET s == [sv[t] EXCEPT !.log = Append(@, "insert")]
     IN  IF ok /\ CanInsertRows(s.payload)
           THEN /\ InsertRows(s.payload)
                /\ SaveDone(t, s)
           ELSE /\ SaveFailed(t, s)
                /\ UNCHANGED workout_exercises
  /\ UNCHANGED <<profiles, exercises, workouts, user_goals, nextId, now, session,
                 dialog, gv, dash, inputs>>

\* ------------------------------------------------------------ Goals view
\* The form's initial and reset value.
BlankGoalForm ==
  [type |-> "", target_value |-> 0, current_value |-> 0, target_date |-> ""]

\* select * from user_goals where user_id = uid order by created_at desc.
SelectGoals(uid) ==
  {s \in Perms({g \in user_goals : g.user_id = uid}) :
     \A i, j \in DOMAIN s : i < j => s[i].created_at >= s[j].created_at}

\* loadGoals up to its await.
StartLoadGoals(v) ==
  [v EXCEPT !.loading = TRUE, !.loads = Append(@, SentLoad)]

\* Goals renders the spinner while loading, else the page.
GoalsVisible(t) == currentView[t] = "goals" /\ ~gv[t].loading

\* The store answers one loadGoals request.
ServeLoadGoals(t, i, ok) ==
  /\ i \in DOMAIN gv[t].loads
  /\ gv[t].loads[i].st = "sent"
  /\ \E s \in SelectGoals(User) :
       gv' = [gv EXCEPT ![t].loads[i] =
                IF ok THEN [@ EXCEPT !.st = "ok", !.data = s]
                      ELSE [@ EXCEPT !.st = "err"]]
  /\ UNCHANGED <<store, now, session, wv, wf, sv, alertMsg, dialog, dash,
                 inputs>>

\* loadGoals after its await: setGoals on success, setLoading(false).
DeliverLoadGoals(t, i) ==
  /\ i \in DOMAIN gv[t].loads
  /\ gv[t].loads[i].st # "sent"
  /\ gv' = [gv EXCEPT
              ![t].goals = IF gv[t].loads[i].st = "ok"
                             THEN gv[t].loads[i].data ELSE @,
              ![t].loading = FALSE,
              ![t].loads = RemoveAt(@, i)]
  /\ UNCHANGED <<store, now, session, wv, wf, sv, alertMsg, dialog, dash,
                 inputs>>

\* The New Goal button: setShowForm(true).
ClickNewGoal(t) ==
  /\ GoalsVisible(t)
  /\ ~gv[t].showForm
  /\ Input
  /\ gv' = [gv EXCEPT ![t].showForm = TRUE]
  /\ UNCHANGED <<store, now, session, wv, wf, sv, alertMsg, dialog, dash>>

\* startEdit of the k-th listed goal.
StartEdit(t, k) ==
  /\ GoalsVisible(t)
  /\ k \in DOMAIN gv[t].goals
  /\ Input
  /\ LET g == gv[t].goals[k]
     IN  gv' = [gv EXCEPT
                  ![t].editingGoal = <<g>>,
                  ![t].formData =
                     [type |-> g.type, target_value |-> g.target_value,
                      current_value |-> g.current_value,
                      target_date |-> IF g.target_date = "null" THEN ""
                                      ELSE g.target_date],
                  ![t].showForm = TRUE]
  /\ UNCHANGED <<store, now, session, wv, wf, sv, alertMsg, dialog, dash>>

\* The form's Cancel button.
CancelGoalForm_KeepsEditing(t) ==
  /\ GoalsVisible(t)
  /\ gv[t].showForm
  /\ Input
  /\ gv' = [gv EXCEPT ![t].showForm = FALSE]
  /\ UNCHANGED <<store, now, session, wv, wf, sv, alertMsg, dialog, dash>>

CancelGoalForm(t) ==
  /\ GoalsVisible(t)
  /\ gv[t].showForm
  /\ Input
  /\ gv' = [gv EXCEPT ![t].showForm = FALSE, ![t].editingGoal = <<>>,
                      ![t].formData = BlankGoalForm]
  /\ UNCHANGED <<store, now, session, wv, wf, sv, alertMsg, dialog, dash>>

\* The form's inputs: the type select and the two number inputs.
SetGoalField(t, field, value) ==
  /\ GoalsVisible(t)
  /\ gv[t].showForm
  /\ gv[t].formData[field] # value
  /\ Input
  /\ gv' = [gv EXCEPT ![t].formData[field] = value]
  /\ UNCHANGED <<store, now, session, wv, wf, sv, alertMsg, dialog, dash>>

\* handleSubmit up to its await.  The type select is required, so the
\* browser submits the form only with a type chosen.
HandleSubmit(t) ==
  /\ GoalsVisible(t)
  /\ gv[t].showForm
  /\ gv[t].formData.type # ""
  /\ Input
  /\ gv' = [gv EXCEPT ![t].writes = Append(@,
              [op |-> IF gv[t].editingGoal # <<>> THEN "update" ELSE "insert",
               id |-> IF gv[t].editingGoal # <<>>
                        THEN gv[t].editingGoal[1].id ELSE 0,
               data |-> gv[t].formData,
               achieved |-> FALSE])]
  /\ UNCHANGED <<store, now, session, wv, wf, sv, alertMsg, dialog, dash>>

\* Goals.handleDelete up to its await: confirm(), and the delete request
\* only when the user answered yes.
HandleDelete(t, k, answer) ==
  /\ GoalsVisible(t)
  /\ k \in DOMAIN gv[t].goals
  /\ Input
  /\ dialog' = [dialog EXCEPT ![t] =
                  [kind |-> "goal", id |-> gv[t].goals[k].id,
                   answer |-> answer]]
  /\ gv' = [gv EXCEPT ![t].writes =
              IF answer
                THEN Append(@, [op |-> "delete", id |-> gv[t].goals[k].id,
                                data |-> BlankGoalForm, achieved |-> FALSE])
                ELSE @]
  /\ UNCHANGED <<store, now, session, wv, wf, sv, alertMsg, dash>>

\* toggleAchieved up to its await: the update carries the negation of the
\* flag of the listed goal.
\* A toggleAchieved that writes the value the goal has.
NotAchieved_Same(goal) == goal.achieved

\* !goal.achieved, of the goal object the view rendered.
NotAchieved(goal) == ~goal.achieved

ToggleAchieved(t, k) ==
  /\ GoalsVisible(t)
  /\ k \in DOMAIN gv[t].goals
  /\ Input
  /\ gv' = [gv EXCEPT ![t].writes =
              Append(@, [op |-> "toggle", id |-> gv[t].goals[k].id,
                         data |-> BlankGoalForm,
                         achieved |-> NotAchieved(gv[t].goals[k])])]
  /\ UNCHANGED <<store, now, session, wv, wf, sv, alertMsg, dialog, dash>>

\* What the store does with a write of the Goals view.  The foreign key of
\* user_id requires the profile row; achieved defaults to false.
CanApplyGoalWrite(w) ==
  w.op = "insert" => \E p \in profiles : p.id = User

\* A store that derives achieved from the progress on every update of the
\* form.
ApplyGoalWrite_AutoAchieve(w) ==
  CASE w.op = "insert" ->
         /\ user_goals' = user_goals \cup
              {[id |-> nextId + 1, user_id |-> User, type |-> w.data.type,
                target_value |-> w.data.target_value,
                current_value |-> w.data.current_value,
                target_date |-> IF w.data.target_date = "" THEN "null"
                                ELSE w.data.target_date,
                achieved |-> FALSE, created_at |-> nextId + 1]}
         /\ nextId' = nextId + 1
    [] w.op = "update" ->
         /\ user_goals' =
              {IF g.id = w.id
                 THEN [g EXCEPT !.type = w.data.type,
                                !.target_value = w.data.target_value,
                                !.current_value = w.data.current_value,
                                !.target_date =
                                   IF w.data.target_date = "" THEN "null"
                                   ELSE w.data.target_date,
                                !.achieved =
                                   w.data.current_value >= w.data.target_value]
                 ELSE g : g \in user_goals}
         /\ UNCHANGED nextId
    [] w.op = "delete" ->
         /\ user_goals' = {g \in user_goals : g.id # w.id}
         /\ UNCHANGED nextId
    [] w.op = "toggle" ->
         /\ user_goals' =
              {IF g.id = w.id THEN [g EXCEPT !.achieved = w.achieved] ELSE g :
                 g \in user_goals}
         /\ UNCHANGED nextId

ApplyGoalWrite(w) ==
  CASE w.op = "insert" ->
         /\ user_goals' = user_goals \cup
              {[id |-> nextId + 1, user_id |-> User, type |-> w.data.type,
                target_value |-> w.data.target_value,
                current_value |-> w.data.current_value,
                target_date |-> IF w.data.target_date = "" THEN "null"
                                ELSE w.data.target_date,
                achieved |-> FALSE, created_at |-> nextId + 1]}
         /\ nextId' = nextId + 1
    [] w.op = "update" ->
         /\ user_goals' =
              {IF g.id = w.id
                 THEN [g EXCEPT !.type = w.data.type,
                                !.target_value = w.data.target_value,
                                !.current_value = w.data.current_value,
                                !.target_date =
                                   IF w.data.target_date = "" THEN "null"
                                   ELSE w.data.target_date]
                 ELSE g : g \in user_goals}
         /\ UNCHANGED nextId
    [] w.op = "delete" ->
         /\ user_goals' = {g \in user_goals : g.id # w.id}
         /\ UNCHANGED nextId
    [] w.op = "toggle" ->
         /\ user_goals' =
              {IF g.id = w.id THEN [g EXCEPT !.achieved = w.achieved] ELSE g :
                 g \in user_goals}
         /\ UNCHANGED nextId

\* The store answers a write of handleSubmit, handleDelete or
\* toggleAchieved, and the handler goes on: after a success handleSubmit
\* resets the form, and all three start loadGoals; an error is only logged.
ServeGoalWrite(t, i, ok) ==
  /\ i \in DOMAIN gv[t].writes
  /\ LET w == gv[t].writes[i]
         v1 == [gv[t] EXCEPT !.writes = RemoveAt(@, i)]
         v2 == IF w.op \in {"insert", "update"}
                 THEN [v1 EXCEPT !.showForm = FALSE, !.editingGoal = <<>>,
                                 !.formData = BlankGoalForm]
                 ELSE v1
     IN  IF ok /\ CanApplyGoalWrite(w)
           THEN /\ ApplyGoalWrite(w)
                /\ gv' = [gv EXCEPT ![t] = StartLoadGoals(v2)]
           ELSE /\ gv' = [gv EXCEPT ![t] = v1]
                /\ UNCHANGED <<user_goals, nextId>>
  /\ UNCHANGED <<profiles, exercises, workouts, workout_exercises, now, session, wv,
                 wf, sv, alertMsg, dialog, dash, inputs>>

\* A division that has no Infinity: any division by zero gives NaN.
Progress100_NoInfinity(c, t) ==
  CASE t > 0 -> [kind |-> "num", n |-> c * 100, d |-> t]
    [] t < 0 -> [kind |-> "num", n |-> (0 - c) * 100, d |-> 0 - t]
    [] OTHER -> [kind |-> "nan", n |-> 0, d |-> 0]

\* current_value / target_value * 100 in JS numbers: a fraction n/d with
\* d > 0, or NaN (0/0), Infinity or -Infinity (a division by zero).
Progress100(c, t) ==
  CASE t > 0 -> [kind |-> "num", n |-> c * 100, d |-> t]
    [] t < 0 -> [kind |-> "num", n |-> (0 - c) * 100, d |-> 0 - t]
    [] t = 0 /\ c > 0 -> [kind |-> "inf", n |-> 1, d |-> 0]
    [] t = 0 /\ c < 0 -> [kind |-> "neginf", n |-> 0 - 1, d |-> 0]
    [] OTHER -> [kind |-> "nan", n |-> 0, d |-> 0]

\* Math.min(x, 100): NaN stays NaN, Infinity gives 100, -Infinity stays.
MathMin100(x) ==
  CASE x.kind = "inf" -> [kind |-> "num", n |-> 100, d |-> 1]
    [] x.kind = "num" /\ x.n > 100 * x.d -> [kind |-> "num", n |-> 100, d |-> 1]
    [] OTHER -> x

\* getProgress.
getProgress(goal) ==
  MathMin100(Progress100(goal.current_value, goal.target_value))

\* ------------------------------------------------------------ Dashboard
\* The days of "the last 7 days", and the limit of the recent workouts.
WeekDays == 7
RecentLimit == 5

\* A reduce whose callback forgets the accumulator.
SumMinutes_NoAccumulator(S) ==
  IF S = {} THEN 0
  ELSE OrElse((CHOOSE x \in S : TRUE).duration_minutes, 0)

RECURSIVE SumMinutes(_)
\* workouts.reduce((sum, w) => sum + (w.duration_minutes || 0), 0).
SumMinutes(S) ==
  IF S = {} THEN 0
  ELSE LET w == CHOOSE x \in S : TRUE
       IN  OrElse(w.duration_minutes, 0) + SumMinutes(S \ {w})

\* new Date(w.date) of a date column: the instant of that day's midnight
\* (UTC), in ticks.
DateInstant(d) == d * TicksPerDay

\* weekAgo = new Date(); weekAgo.setDate(weekAgo.getDate() - 7): the same
\* time of day, seven days before the instant of the call.
WeekAgo(instant) == instant - WeekDays * TicksPerDay

\* workouts.filter(w => new Date(w.date) >= weekAgo).length.
WeeklyWorkouts(ws, instant) ==
  Cardinality({w \in ws : DateInstant(w.date) >= WeekAgo(instant)})

ZeroStats ==
  [totalWorkouts |-> 0, totalMinutes |-> 0, activeGoals |-> 0,
   weeklyWorkouts |-> 0]

\* The Dashboard before it is mounted, and after: loadDashboardData is at
\* its first await.  fetched is the answer to the workouts query, kept with
\* computedAt, the instant the stats were computed from it.
\* logged is the query whose error console.error logged last.
NoDashboard ==
  [stats |-> ZeroStats, recentWorkouts |-> <<>>, loading |-> TRUE,
   pc |-> "idle", fetched |-> {}, computedAt |-> 0, logged |-> "none"]
MountDashboard == [NoDashboard EXCEPT !.pc = "workouts"]

\* A catch that clears the stats.
DashFailed_ClearStats(d) ==
  [d EXCEPT !.pc = "failed", !.loading = FALSE, !.logged = d.pc,
            !.stats = ZeroStats]

\* The catch and the finally of loadDashboardData.
DashFailed(d) ==
  [d EXCEPT !.pc = "failed", !.loading = FALSE, !.logged = d.pc]

\* The useEffect on [user] runs again for a mounted Dashboard whose load
\* has ended: loadDashboardData starts over, to its first await.
ReloadDashboard(t) ==
  /\ currentView[t] = "dashboard"
  /\ dash[t].pc \in {"done", "failed"}
  /\ dash' = [dash EXCEPT ![t].pc = "workouts", ![t].loading = TRUE]
  /\ UNCHANGED <<store, now, session, wv, wf, sv, alertMsg, dialog, gv,
                 inputs>>

\* The store answers the query of all workouts of the identity.
ServeDashWorkouts(t, ok) ==
  /\ dash[t].pc = "workouts"
  /\ dash' = [dash EXCEPT ![t] =
                IF ok THEN [@ EXCEPT !.pc = "goals",
                                     !.fetched =
                                        {w \in workouts : w.user_id = User}]
                      ELSE DashFailed(@)]
  /\ UNCHANGED <<store, now, session, wv, wf, sv, alertMsg, dialog, gv,
                 inputs>>

\* The store answers the query of the goals not achieved; the stats are
\* computed from the two answers at the instant of this step, and set.
ServeDashGoals(t, ok) ==
  /\ dash[t].pc = "goals"
  /\ dash' = [dash EXCEPT ![t] =
       IF ok
         THEN [@ EXCEPT
                 !.pc = "recent",
                 !.stats =
                    [totalWorkouts |-> Cardinality(dash[t].fetched),
                     totalMinutes |-> SumMinutes(dash[t].fetched),
                     activeGoals |->
                        Cardinality({g \in user_goals :
                                       g.user_id = User /\ ~g.achieved}),
                     weeklyWorkouts |->
                        WeeklyWorkouts(dash[t].fetched, now)],
                 !.computedAt = now]
         ELSE DashFailed(@)]
  /\ UNCHANGED <<store, now, session, wv, wf, sv, alertMsg, dialog, gv,
                 inputs>>

\* A query without its limit.
Take_NoLimit(s, n) == s

\* The first RecentLimit of a sequence.
Take(s, n) == SubSeq(s, 1, Min(Len(s), n))

\* The store answers the query of the recent workouts: order by date desc
\* limit 5, each with its exercise count.
ServeDashRecent(t, ok) ==
  /\ dash[t].pc = "recent"
  /\ \E s \in SelectWorkouts(User) :
       dash' = [dash EXCEPT ![t] =
         IF ok
           THEN [@ EXCEPT
                   !.pc = "done",
                   !.loading = FALSE,
                   !.recentWorkouts =
                      [k \in DOMAIN Take(s, RecentLimit) |->
                         [id |-> s[k].id, name |-> s[k].name,
                          date |-> s[k].date,
                          duration_minutes |-> s[k].duration_minutes,
                          exercise_count |-> Cardinality(RowsOf(s[k].id))]]]
           ELSE DashFailed(@)]
  /\ UNCHANGED <<store, now, session, wv, wf, sv, alertMsg, dialog, gv,
                 inputs>>

\* ------------------------------------------------------------ Profile view
\* user_metadata without a full_name.
NoName == "undefined"
\* value || '' on a name.
OrEmpty(v) == IF v = NoName THEN "" ELSE v

\* The user useAuth gives for the identity, with the display name of its
\* metadata.
Identity(name) == [id |-> User, full_name |-> name]

\* The Profile view before it is mounted, and after: loadProfile is at its
\* select.  save is the update request of handleSave in flight.
NoProfileView ==
  [profile |-> <<>>, fullName |-> "", loading |-> TRUE, saving |-> FALSE,
   pc |-> "idle", save |-> <<>>]
MountProfileView == [NoProfileView EXCEPT !.pc = "select"]

ProfileVisible(t) == currentView[t] = "profile" /\ ~pv[t].loading

\* A loadProfile whose catch leaves the spinner on.
ProfileFailed_NoFinally(v) == [v EXCEPT !.pc = "failed"]

\* The catch and the finally of loadProfile.
ProfileFailed(v) == [v EXCEPT !.pc = "failed", !.loading = FALSE]

\* setProfile(row), setFullName(row.full_name || ''), and the finally.
ProfileLoaded(v, row) ==
  [v EXCEPT !.profile = <<row>>, !.fullName = OrEmpty(row.full_name),
            !.pc = "done", !.loading = FALSE]

\* The store answers the select of loadProfile: the row; or PGRST116 for no
\* row, and loadProfile goes on to the insert; or another error.
ServeSelectProfile(t, ok) ==
  /\ pv[t].pc = "select"
  /\ auth[t].user # <<>>
  /\ LET rows == {p \in profiles : p.id = auth[t].user[1].id}
     IN  pv' = [pv EXCEPT ![t] =
                  IF ~ok THEN ProfileFailed(@)
                  ELSE IF rows = {} THEN [@ EXCEPT !.pc = "insert"]
                  ELSE ProfileLoaded(@, CHOOSE p \in rows : TRUE)]
  /\ UNCHANGED <<store, now, auth, currentView, reply, wv, wf, sv, alertMsg,
                 dialog, gv, dash, inputs>>

\* A profiles table without its primary key.
CanInsertProfile_NoKey(p) == TRUE

\* The primary key of profiles.
CanInsertProfile(p) == \A q \in profiles : q.id # p.id

\* The store answers the insert of loadProfile: the row is created with the
\* defaults of its timestamps, or the insert fails.
ServeInsertProfile(t, ok) ==
  /\ pv[t].pc = "insert"
  /\ auth[t].user # <<>>
  /\ LET row == [id |-> auth[t].user[1].id,
                 full_name |-> OrEmpty(auth[t].user[1].full_name),
                 created_at |-> now, updated_at |-> now]
     IN  IF ok /\ CanInsertProfile(row)
           THEN /\ profiles' = profiles \cup {row}
                /\ pv' = [pv EXCEPT ![t] = ProfileLoaded(@, row)]
           ELSE /\ profiles' = profiles
                /\ pv' = [pv EXCEPT ![t] = ProfileFailed(@)]
  /\ UNCHANGED <<workouts, workout_exercises, user_goals, exercises, nextId,
                 now, auth, currentView, reply, wv, wf, sv, alertMsg, dialog,
                 gv, dash, inputs>>

\* The Full Name input.
SetFullName(t, n) ==
  /\ ProfileVisible(t)
  /\ pv[t].fullName # n
  /\ Input
  /\ pv' = [pv EXCEPT ![t].fullName = n]
  /\ UNCHANGED <<store, now, auth, currentView, reply, wv, wf, sv, alertMsg,
                 dialog, gv, dash>>

\* Profile.handleSave up to its await: setSaving(true), and the update with
\* the name typed and the time of the client.
ProfileHandleSave(t) ==
  /\ ProfileVisible(t)
  /\ ~pv[t].saving
  /\ auth[t].user # <<>>
  /\ Input
  /\ pv' = [pv EXCEPT ![t].saving = TRUE,
                      ![t].save = <<[id |-> auth[t].user[1].id,
                                     full_name |-> pv[t].fullName,
                                     updated_at |-> now]>>]
  /\ UNCHANGED <<store, now, auth, currentView, reply, wv, wf, sv, alertMsg,
                 dialog, gv, dash>>

\* update profiles set full_name, updated_at where id = ...: a filter that
\* matches no row is no error.
UpdateProfile(w) ==
  profiles' = {IF p.id = w.id
                 THEN [p EXCEPT !.full_name = w.full_name,
                                !.updated_at = w.updated_at]
                 ELSE p : p \in profiles}

\* The store answers the update of Profile.handleSave, and handleSave goes
\* on: setProfile on the profile it holds and the alert of success, or the
\* alert of the error; setSaving(false).
ServeSaveProfile(t, ok) ==
  /\ pv[t].save # <<>>
  /\ LET w == pv[t].save[1]
         v1 == [pv[t] EXCEPT !.saving = FALSE, !.save = <<>>]
     IN  IF ok
           THEN /\ UpdateProfile(w)
                /\ pv' = [pv EXCEPT ![t] =
                            IF v1.profile = <<>> THEN v1
                            ELSE [v1 EXCEPT !.profile[1].full_name =
                                               w.full_name]]
                /\ alertMsg' = [alertMsg EXCEPT ![t] = "profile updated"]
           ELSE /\ profiles' = profiles
                /\ pv' = [pv EXCEPT ![t] = v1]
                /\ alertMsg' = [alertMsg EXCEPT ![t] = "profile error"]
  /\ UNCHANGED <<workouts, workout_exercises, user_goals, exercises, nextId,
                 now, auth, currentView, reply, wv, wf, sv, dialog, gv, dash,
                 inputs>>

\* ------------------------------------------------------------ specification
\* The day the behaviours start on.
StartDay == 20

\* A workout and its one exercise as the form saves them after New Workout,
\* a name, Add Exercise and Save.
SeedWorkout ==
  [id |-> 1, user_id |-> User, name |-> "Legs", date |-> StartDay,
   duration_minutes |-> 0]
SeedRow ==
  [id |-> 1, workout_id |-> 1, exercise_id |-> "Squats", sets |-> 3,
   reps |-> <<10, 10, 10>>, weight |-> <<0, 0, 0>>, rest_seconds |-> 60]

\* The views before they are mounted (their useState initialisers), and
\* after: the useEffect has started the load.
NoWorkoutsView ==
  [workouts |-> <<>>, loading |-> TRUE, showForm |-> FALSE,
   editingWorkout |-> <<>>, loads |-> <<>>, deletes |-> <<>>]
MountWorkoutsView == [NoWorkoutsView EXCEPT !.loads = <<SentLoad>>]
NoGoalsView ==
  [goals |-> <<>>, loading |-> TRUE, showForm |-> FALSE,
   editingGoal |-> <<>>, formData |-> BlankGoalForm, loads |-> <<>>,
   writes |-> <<>>]
MountGoalsView == [NoGoalsView EXCEPT !.loads = <<SentLoad>>]

NoDialog == [kind |-> "none", id |-> 0, answer |-> FALSE]

\* The profile row of the identity, created the day before.
SeedProfile ==
  [id |-> User, full_name |-> "Ann",
   created_at |-> (StartDay - 1) * TicksPerDay,
   updated_at |-> (StartDay - 1) * TicksPerDay]
\* No direct request has been made.
NoReply == [uid |-> "", table |-> "", op |-> "", rows |-> {}, error |-> FALSE]

\* The sessions: tab 1 shows the view, the other tabs are not open.
InitViews(view, tabs) ==
  /\ currentView = [t \in AllTabs |-> IF t \in tabs THEN view ELSE "closed"]
  /\ wv = [t \in AllTabs |-> IF t \in tabs /\ view = "workouts"
                               THEN MountWorkoutsView ELSE NoWorkoutsView]
  /\ gv = [t \in AllTabs |-> IF t \in tabs /\ view = "goals"
                               THEN MountGoalsView ELSE NoGoalsView]
  /\ dash = [t \in AllTabs |-> IF t \in tabs /\ view = "dashboard"
                                 THEN MountDashboard ELSE NoDashboard]
  /\ pv = [t \in AllTabs |-> IF t \in tabs /\ view = "profile"
                               THEN MountProfileView ELSE NoProfileView]
  /\ wf = [t \in AllTabs |-> NoForm]
  /\ sv = [t \in AllTabs |-> IdleSave]
  /\ alertMsg = [t \in AllTabs |-> "none"]
  /\ dialog = [t \in AllTabs |-> NoDialog]
  /\ exercises = Catalog
  /\ reply = NoReply
  /\ inputs = 0

\* The store: no profile row yet; or the profile row alone; or the profile
\* row with one workout saved before.
InitStore ==
  /\ user_goals = {}
  /\ \/ profiles = {} /\ workouts = {} /\ workout_exercises = {} /\ nextId = 0
     \/ profiles = {SeedProfile} /\ workouts = {} /\ workout_exercises = {}
        /\ nextId = 0
     \/ profiles = {SeedProfile} /\ workouts = {SeedWorkout}
        /\ workout_exercises = {SeedRow} /\ nextId = 1

\* Every open tab has its identity established.
InitAuth(tabs, name) ==
  auth = [t \in AllTabs |->
            IF t \in tabs THEN [loading |-> FALSE, user |-> <<Identity(name)>>]
            ELSE [loading |-> TRUE, user |-> <<>>]]

Init ==
  /\ InitStore
  /\ InitAuth({1}, "Ann")
  /\ now = StartDay * TicksPerDay
  /\ \E view \in {"workouts", "goals"} : InitViews(view, {1})

\* What the user types and picks.
NameInputs == {"Arms"}
Picks == {"Push-ups"}
RestInputs == {90}
SetInputs == {0, 12}
GoalTypes == {"Push-ups"}
TargetInputs == {0, 200}
CurrentInputs == {0 - 50, 0, 50, 250}

\* The steps of the Workouts view and its form in tab t.
WorkoutsNext(t) ==
  \/ \E i \in 1..MaxInputs, ok \in BOOLEAN : ServeLoadWorkouts(t, i, ok)
  \/ \E i \in 1..MaxInputs : DeliverLoadWorkouts(t, i)
  \/ ClickNewWorkout(t)
  \/ \E k \in 1..MaxInputs : ClickEditWorkout(t, k)
  \/ CancelWorkoutForm(t)
  \/ \E k \in 1..MaxInputs, answer \in BOOLEAN : HandleDeleteWorkout(t, k, answer)
  \/ \E i \in 1..MaxInputs, ok \in BOOLEAN : ServeDeleteWorkout(t, i, ok)
  \/ \E ok \in BOOLEAN : ServeLoadExercises(t, ok)
  \/ \E ok \in BOOLEAN : ServeLoadWorkoutExercises(t, ok)
  \/ \E n \in NameInputs : SetName(t, n)
  \/ OpenExerciseSelector(t)
  \/ \E e \in Picks : AddExercise(t, e)
  \/ \E i \in 1..MaxInputs, v \in RestInputs : UpdateWorkoutExercise(t, i, v)
  \/ \E i \in 1..MaxInputs, j \in 1..(3 + MaxInputs),
        field \in {"reps", "weight"}, v \in SetInputs :
       UpdateSetData(t, i, j, field, v)
  \/ \E i \in 1..MaxInputs : AddSet(t, i)
  \/ \E i \in 1..MaxInputs : RemoveSet(t, i)
  \/ \E i \in 1..MaxInputs : RemoveExercise(t, i)
  \/ HandleSave(t)
  \/ \E ok \in BOOLEAN : ServeSaveUpdate(t, ok)
  \/ \E ok \in BOOLEAN : ServeSaveDelete(t, ok)
  \/ \E ok \in BOOLEAN : ServeSaveCreate(t, ok)
  \/ \E ok \in BOOLEAN : ServeSaveInsert(t, ok)

\* The steps of the Goals view in tab t.
GoalsNext(t) ==
  \/ \E i \in 1..MaxInputs, ok \in BOOLEAN : ServeLoadGoals(t, i, ok)
  \/ \E i \in 1..MaxInputs : DeliverLoadGoals(t, i)
  \/ ClickNewGoal(t)
  \/ \E k \in 1..MaxInputs : StartEdit(t, k)
  \/ CancelGoalForm(t)
  \/ \E v \in GoalTypes : SetGoalField(t, "type", v)
  \/ \E v \in TargetInputs : SetGoalField(t, "target_value", v)
  \/ \E v \in CurrentInputs : SetGoalField(t, "current_value", v)
  \/ HandleSubmit(t)
  \/ \E k \in 1..MaxInputs, answer \in BOOLEAN : HandleDelete(t, k, answer)
  \/ \E k \in 1..MaxInputs : ToggleAchieved(t, k)
  \/ \E i \in 1..MaxInputs, ok \in BOOLEAN : ServeGoalWrite(t, i, ok)

Next == WorkoutsNext(1) \/ GoalsNext(1)

Spec == Init /\ [][Next]_vars

\* Two tabs of the one identity, both on the Workouts view, over the store
\* with the workout saved before; each edits and saves.
DurationInputs == {45}
DateInputs == {StartDay - 1}

InitTabs ==
  /\ user_goals = {}
  /\ profiles = {SeedProfile} /\ workouts = {SeedWorkout}
  /\ workout_exercises = {SeedRow} /\ nextId = 1
  /\ now = StartDay * TicksPerDay
  /\ InitAuth(AllTabs, "Ann")
  /\ InitViews("workouts", AllTabs)

\* The steps of tab t between opening the form on a workout and the end of
\* its save.
EditNext(t) ==
  \/ \E i \in 1..MaxInputs, ok \in BOOLEAN : ServeLoadWorkouts(t, i, ok)
  \/ \E i \in 1..MaxInputs : DeliverLoadWorkouts(t, i)
  \/ \E k \in 1..MaxInputs : ClickEditWorkout(t, k)
  \/ \E ok \in BOOLEAN : ServeLoadExercises(t, ok)
  \/ \E ok \in BOOLEAN : ServeLoadWorkoutExercises(t, ok)
  \/ \E n \in NameInputs : SetName(t, n)
  \/ OpenExerciseSelector(t)
  \/ \E d \in DateInputs : SetDate(t, d)
  \/ \E m \in DurationInputs : SetDurationMinutes(t, m)
  \/ \E e \in Picks : AddExercise(t, e)
  \/ HandleSave(t)
  \/ \E ok \in BOOLEAN : ServeSaveUpdate(t, ok)
  \/ \E ok \in BOOLEAN : ServeSaveDelete(t, ok)
  \/ \E ok \in BOOLEAN : ServeSaveInsert(t, ok)

NextTabs == \E t \in AllTabs : EditNext(t)

SpecTabs == InitTabs /\ [][NextTabs]_vars

\* The form of tab 1 after New Workout, with its picker.
SearchTerms == {"", "p", "BODY", "core", "Lift", "Ups", "zz", "pushups"}
PickerPicks == {"Push-ups", "Deadlift", "Plank"}

InitPicker ==
  /\ user_goals = {}
  /\ profiles = {SeedProfile} /\ workouts = {}
  /\ workout_exercises = {} /\ nextId = 0
  /\ now = StartDay * TicksPerDay
  /\ InitAuth({1}, "Ann")
  /\ currentView = [t \in AllTabs |-> IF t = 1 THEN "workouts" ELSE "closed"]
  /\ wv = [t \in AllTabs |->
             IF t = 1 THEN [MountWorkoutsView EXCEPT !.loading = FALSE,
                                                     !.loads = <<>>,
                                                     !.showForm = TRUE]
             ELSE NoWorkoutsView]
  /\ wf = [t \in AllTabs |-> IF t = 1 THEN MountForm(<<>>) ELSE NoForm]
  /\ gv = [t \in AllTabs |-> NoGoalsView]
  /\ dash = [t \in AllTabs |-> NoDashboard]
  /\ pv = [t \in AllTabs |-> NoProfileView]
  /\ sv = [t \in AllTabs |-> IdleSave]
  /\ alertMsg = [t \in AllTabs |-> "none"]
  /\ dialog = [t \in AllTabs |-> NoDialog]
  /\ exercises = Catalog
  /\ reply = NoReply
  /\ inputs = 0

NextPicker ==
  \/ \E ok \in BOOLEAN : ServeLoadExercises(1, ok)
  \/ OpenExerciseSelector(1)
  \/ CloseExerciseSelector(1)
  \/ \E term \in SearchTerms : SetSearchTerm(1, term)
  \/ \E e \in PickerPicks : AddExercise(1, e)
  \/ \E i \in 1..MaxInputs : AddSet(1, i)

SpecPicker == InitPicker /\ [][NextPicker]_vars

\* The Goals view of tab 1 over a store with a goal saved before.
SeedGoal ==
  [id |-> 1, user_id |-> User, type |-> "Push-ups", target_value |-> 200,
   current_value |-> 50, target_date |-> "null", achieved |-> FALSE,
   created_at |-> 1]

InitGoals ==
  /\ profiles = {SeedProfile} /\ workouts = {} /\ workout_exercises = {}
  /\ user_goals = {SeedGoal} /\ nextId = 1
  /\ now = StartDay * TicksPerDay
  /\ InitAuth({1}, "Ann")
  /\ InitViews("goals", {1})

NextGoals == GoalsNext(1)

\* The saves of the form: tab 1 on the Workouts view over the store with
\* the workout saved before, the form opened on a new or on that workout.
InitSave ==
  /\ user_goals = {}
  /\ profiles = {SeedProfile} /\ workouts = {SeedWorkout}
  /\ workout_exercises = {SeedRow} /\ nextId = 1
  /\ now = StartDay * TicksPerDay
  /\ InitAuth({1}, "Ann")
  /\ InitViews("workouts", {1})

NextSave ==
  \/ \E i \in 1..MaxInputs, ok \in BOOLEAN : ServeLoadWorkouts(1, i, ok)
  \/ \E i \in 1..MaxInputs : DeliverLoadWorkouts(1, i)
  \/ ClickNewWorkout(1)
  \/ \E k \in 1..MaxInputs : ClickEditWorkout(1, k)
  \/ CancelWorkoutForm(1)
  \/ \E ok \in BOOLEAN : ServeLoadExercises(1, ok)
  \/ \E ok \in BOOLEAN : ServeLoadWorkoutExercises(1, ok)
  \/ \E n \in NameInputs : SetName(1, n)
  \/ OpenExerciseSelector(1)
  \/ \E e \in Picks : AddExercise(1, e)
  \/ \E i \in 1..MaxInputs : RemoveExercise(1, i)
  \/ HandleSave(1)
  \/ \E ok \in BOOLEAN : ServeSaveUpdate(1, ok)
  \/ \E ok \in BOOLEAN : ServeSaveDelete(1, ok)
  \/ \E ok \in BOOLEAN : ServeSaveCreate(1, ok)
  \/ \E ok \in BOOLEAN : ServeSaveInsert(1, ok)

SpecSave == InitSave /\ [][NextSave]_vars

\* The loads of the three views: tab 1 on the Workouts or the Goals view
\* over a store with a workout and a goal, or on the Profile view with or
\* without a profile row; the deletes and toggles load again.
InitLoads ==
  /\ now = StartDay * TicksPerDay
  /\ InitAuth({1}, "Ann")
  /\ \/ /\ profiles = {SeedProfile} /\ workouts = {SeedWorkout}
        /\ workout_exercises = {SeedRow} /\ user_goals = {SeedGoal}
        /\ nextId = 1
        /\ \E view \in {"workouts", "goals"} : InitViews(view, {1})
     \/ /\ profiles \in {{}, {SeedProfile}} /\ workouts = {}
        /\ workout_exercises = {} /\ user_goals = {} /\ nextId = 0
        /\ InitViews("profile", {1})

NextLoads ==
  \/ \E i \in 1..MaxInputs, ok \in BOOLEAN : ServeLoadWorkouts(1, i, ok)
  \/ \E i \in 1..MaxInputs : DeliverLoadWorkouts(1, i)
  \/ \E k \in 1..MaxInputs, answer \in BOOLEAN :
       HandleDeleteWorkout(1, k, answer)
  \/ \E i \in 1..MaxInputs, ok \in BOOLEAN : ServeDeleteWorkout(1, i, ok)
  \/ \E i \in 1..MaxInputs, ok \in BOOLEAN : ServeLoadGoals(1, i, ok)
  \/ \E i \in 1..MaxInputs : DeliverLoadGoals(1, i)
  \/ \E k \in 1..MaxInputs : ToggleAchieved(1, k)
  \/ \E i \in 1..MaxInputs, ok \in BOOLEAN : ServeGoalWrite(1, i, ok)
  \/ \E ok \in BOOLEAN : ServeSelectProfile(1, ok)
  \/ \E ok \in BOOLEAN : ServeInsertProfile(1, ok)

\* Every request of a load is answered, and the code after its await runs.
LoadsFairness ==
  /\ WF_vars(\E i \in 1..MaxInputs, ok \in BOOLEAN : ServeLoadWorkouts(1, i, ok))
  /\ WF_vars(\E i \in 1..MaxInputs : DeliverLoadWorkouts(1, i))
  /\ WF_vars(\E i \in 1..MaxInputs, ok \in BOOLEAN : ServeLoadGoals(1, i, ok))
  /\ WF_vars(\E i \in 1..MaxInputs : DeliverLoadGoals(1, i))
  /\ WF_vars(\E ok \in BOOLEAN : ServeSelectProfile(1, ok))
  /\ WF_vars(\E ok \in BOOLEAN : ServeInsertProfile(1, ok))

SpecLoads == InitLoads /\ [][NextLoads]_vars /\ LoadsFairness

SpecGoals == InitGoals /\ [][NextGoals]_vars

\* The same, with a store that answers every request without error.
NextRefetch ==
  \/ \E i \in 1..MaxInputs : ServeLoadGoals(1, i, TRUE)
  \/ \E i \in 1..MaxInputs : DeliverLoadGoals(1, i)
  \/ ClickNewGoal(1)
  \/ \E k \in 1..MaxInputs : StartEdit(1, k)
  \/ CancelGoalForm(1)
  \/ \E v \in GoalTypes : SetGoalField(1, "type", v)
  \/ \E v \in TargetInputs : SetGoalField(1, "target_value", v)
  \/ \E v \in CurrentInputs : SetGoalField(1, "current_value", v)
  \/ HandleSubmit(1)
  \/ \E k \in 1..MaxInputs, answer \in BOOLEAN : HandleDelete(1, k, answer)
  \/ \E k \in 1..MaxInputs : ToggleAchieved(1, k)
  \/ \E i \in 1..MaxInputs : ServeGoalWrite(1, i, TRUE)

SpecRefetch == InitGoals /\ [][NextRefetch]_vars

\* The Dashboard of tab 1 over a store with workouts of the last days, while
\* the clock runs.
MaxTicks == 3
DashWorkouts ==
  {[id |-> k, user_id |-> User, name |-> "Legs",
    date |-> StartDay - (9 - k), duration_minutes |-> 30] : k \in 1..3}
    \cup {[id |-> 4, user_id |-> User, name |-> "Arms", date |-> StartDay,
           duration_minutes |-> 45],
          [id |-> 5, user_id |-> User, name |-> "Core",
           date |-> StartDay - 8, duration_minutes |-> 20],
          [id |-> 6, user_id |-> User, name |-> "Walk",
           date |-> StartDay - 1, duration_minutes |-> Null]}
\* Their exercises: two of workout 4 and one of workout 1.
DashRows ==
  {[SeedRow EXCEPT !.id = 1, !.workout_id = 4],
   [SeedRow EXCEPT !.id = 2, !.workout_id = 4, !.exercise_id = "Push-ups"],
   [SeedRow EXCEPT !.id = 3, !.workout_id = 1]}

\* The clock advances.
Tick ==
  /\ now < StartDay * TicksPerDay + MaxTicks
  /\ now' = now + 1
  /\ UNCHANGED <<store, session, wv, wf, sv, alertMsg, dialog, gv, dash,
                 inputs>>

\* ------------------------------------------------------------ App shell
\* The ids of Layout's navigation.
NavigationIds == {"dashboard", "workouts", "goals", "profile"}

\* renderCurrentView: the switch on currentView and its default.
RenderCurrentView(v) ==
  CASE v = "workouts" -> "Workouts"
    [] v = "goals" -> "Goals"
    [] v = "profile" -> "Profile"
    [] OTHER -> "Dashboard"

\* An App that renders the view without the test of the user.
ScreenOf_NoUserTest(a, v) ==
  IF a.loading THEN "Spinner" ELSE RenderCurrentView(v)

\* What App renders for what useAuth gives and currentView.
ScreenOf(a, v) ==
  IF a.loading THEN "Spinner"
  ELSE IF a.user = <<>> THEN "Auth"
  ELSE RenderCurrentView(v)

\* A component after a render that shows the screen sc: kept when it is the
\* one shown and was mounted, mounted when it is shown anew, else unmounted.
ViewAfter(sc, name, cur, none, mount) ==
  IF sc = name THEN (IF cur = none THEN mount ELSE cur) ELSE none

\* App renders in tab t with a from useAuth and the current view v.
Render(t, a, v) ==
  LET sc == ScreenOf(a, v)
  IN  /\ dash' = [dash EXCEPT ![t] =
                    ViewAfter(sc, "Dashboard", @, NoDashboard, MountDashboard)]
      /\ wv' = [wv EXCEPT ![t] =
                  ViewAfter(sc, "Workouts", @, NoWorkoutsView,
                            MountWorkoutsView)]
      /\ gv' = [gv EXCEPT ![t] =
                  ViewAfter(sc, "Goals", @, NoGoalsView, MountGoalsView)]
      /\ pv' = [pv EXCEPT ![t] =
                  ViewAfter(sc, "Profile", @, NoProfileView, MountProfileView)]
      /\ wf' = [wf EXCEPT ![t] = IF sc = "Workouts" THEN @ ELSE NoForm]
      /\ sv' = [sv EXCEPT ![t].live = @ /\ sc = "Workouts"]

\* The identity check of useAuth ends, with the user u or with none.
AuthChecked(t, u) ==
  /\ auth[t].loading
  /\ auth' = [auth EXCEPT ![t] = [loading |-> FALSE, user |-> u]]
  /\ Render(t, auth'[t], currentView[t])
  /\ UNCHANGED <<store, now, currentView, reply, alertMsg, dialog, inputs>>

\* The user signs in on the authentication view.
SignedIn(t, u) ==
  /\ ~auth[t].loading /\ auth[t].user = <<>>
  /\ Input
  /\ auth' = [auth EXCEPT ![t].user = u]
  /\ Render(t, auth'[t], currentView[t])
  /\ UNCHANGED <<store, now, currentView, reply, alertMsg, dialog>>

\* Layout's handleSignOut, with a signOut that succeeds.
HandleSignOut(t) ==
  /\ ~auth[t].loading /\ auth[t].user # <<>>
  /\ Input
  /\ auth' = [auth EXCEPT ![t].user = <<>>]
  /\ Render(t, auth'[t], currentView[t])
  /\ UNCHANGED <<store, now, currentView, reply, alertMsg, dialog>>

\* A button of Layout's navigation: onViewChange(item.id).
OnViewChange(t, v) ==
  /\ ~auth[t].loading /\ auth[t].user # <<>>
  /\ v \in NavigationIds
  /\ v # currentView[t]
  /\ Input
  /\ currentView' = [currentView EXCEPT ![t] = v]
  /\ Render(t, auth[t], v)
  /\ UNCHANGED <<store, now, auth, reply, alertMsg, dialog>>

\* App in tab 1 from its first render, the identity check pending, over a
\* store with a profile, a workout and a goal; the views only read.
InitShell ==
  /\ profiles = {SeedProfile} /\ workouts = {SeedWorkout}
  /\ workout_exercises = {SeedRow} /\ user_goals = {SeedGoal}
  /\ exercises = Catalog /\ nextId = 1
  /\ now = StartDay * TicksPerDay
  /\ auth = [t \in AllTabs |-> [loading |-> TRUE, user |-> <<>>]]
  /\ currentView = [t \in AllTabs |-> "dashboard"]
  /\ wv = [t \in AllTabs |-> NoWorkoutsView]
  /\ gv = [t \in AllTabs |-> NoGoalsView]
  /\ dash = [t \in AllTabs |-> NoDashboard]
  /\ pv = [t \in AllTabs |-> NoProfileView]
  /\ wf = [t \in AllTabs |-> NoForm]
  /\ sv = [t \in AllTabs |-> IdleSave]
  /\ alertMsg = [t \in AllTabs |-> "none"]
  /\ dialog = [t \in AllTabs |-> NoDialog]
  /\ reply = NoReply
  /\ inputs = 0

NextShell ==
  \/ \E u \in {<<>>, <<Identity("Ann")>>} : AuthChecked(1, u)
  \/ SignedIn(1, <<Identity("Ann")>>)
  \/ HandleSignOut(1)
  \/ \E v \in NavigationIds : OnViewChange(1, v)
  \/ \E ok \in BOOLEAN : ServeDashWorkouts(1, ok)
  \/ \E ok \in BOOLEAN : ServeDashGoals(1, ok)
  \/ \E ok \in BOOLEAN : ServeDashRecent(1, ok)
  \/ \E i \in 1..MaxInputs, ok \in BOOLEAN : ServeLoadWorkouts(1, i, ok)
  \/ \E i \in 1..MaxInputs : DeliverLoadWorkouts(1, i)
  \/ \E i \in 1..MaxInputs, ok \in BOOLEAN : ServeLoadGoals(1, i, ok)
  \/ \E i \in 1..MaxInputs : DeliverLoadGoals(1, i)
  \/ \E ok \in BOOLEAN : ServeSelectProfile(1, ok)

SpecShell == InitShell /\ [][NextShell]_vars

\* ------------------------------------------------- Row-level policies
\* Requests made to the store directly, as one of two identities, under the
\* policies of the migration.
Uids == {User, "u2"}
Tables == {"profiles", "workouts", "workout_exercises", "user_goals",
           "exercises"}
\* The largest id the store generates for an inserted row.
MaxRowId == 3

\* The catalog as rows, and as the function the views read.
ExerciseRows(ex) == {[name |-> n, category |-> ex[n]] : n \in DOMAIN ex}
ExercisesOf(rows) ==
  [n \in {r.name : r \in rows} |->
     (CHOOSE r \in rows : r.name = n).category]

RowsIn(table) ==
  CASE table = "profiles" -> profiles
    [] table = "workouts" -> workouts
    [] table = "workout_exercises" -> workout_exercises
    [] table = "user_goals" -> user_goals
    [] table = "exercises" -> ExerciseRows(exercises)

\* Policies that permit every command on every table.
Permits_AdminWrite(table, op) == TRUE

\* Row level security is enabled on every table: a command on a table is
\* permitted only when a policy of the table is FOR that command or FOR ALL.
Permits(table, op) ==
  CASE table = "profiles" -> op \in {"select", "update", "insert"}
    [] table = "exercises" -> op = "select"
    [] OTHER -> TRUE

\* Policies whose expression is true of every row.
Using_Open(uid, table, r, ws) == TRUE

\* The expression of the table's policies for the caller uid and the row r,
\* with ws the workouts; a policy with USING only checks new rows with the
\* same expression.
Using(uid, table, r, ws) ==
  CASE table = "profiles" -> uid = r.id
    [] table = "workouts" -> uid = r.user_id
    [] table = "workout_exercises" ->
         r.workout_id \in {w.id : w \in {x \in ws : x.user_id = uid}}
    [] table = "user_goals" -> uid = r.user_id
    [] table = "exercises" -> TRUE

\* The row r with the column p[1] set to p[2].
Patched(r, p) == [f \in DOMAIN r |-> IF f = p[1] THEN p[2] ELSE r[f]]

KeyOf(table, r) == IF table = "exercises" THEN r.name ELSE r.id

\* The primary key and the foreign keys of the table hold of rows.
Constraints(table, rows) ==
  /\ \A r1 \in rows : \A r2 \in rows :
       KeyOf(table, r1) = KeyOf(table, r2) => r1 = r2
  /\ table \in {"workouts", "user_goals"} =>
       \A r \in rows : \E q \in profiles : q.id = r.user_id
  /\ table = "workout_exercises" =>
       \A r \in rows : /\ \E w \in workouts : w.id = r.workout_id
                       /\ r.exercise_id \in DOMAIN exercises

\* A store whose references do not cascade.
Stored_NoCascade(table, rows) ==
  /\ profiles' = IF table = "profiles" THEN rows ELSE profiles
  /\ exercises' = IF table = "exercises" THEN ExercisesOf(rows) ELSE exercises
  /\ workouts' = IF table = "workouts" THEN rows ELSE workouts
  /\ user_goals' = IF table = "user_goals" THEN rows ELSE user_goals
  /\ workout_exercises' = IF table = "workout_exercises" THEN rows
                          ELSE workout_exercises

\* The table holds rows; the rows that referenced a row which is gone are
\* deleted with it (ON DELETE CASCADE).
Stored(table, rows) ==
  LET ps == IF table = "profiles" THEN rows ELSE profiles
      es == IF table = "exercises" THEN ExercisesOf(rows) ELSE exercises
      ws == {w \in IF table = "workouts" THEN rows ELSE workouts :
               \E q \in ps : q.id = w.user_id}
      gs == {g \in IF table = "user_goals" THEN rows ELSE user_goals :
               \E q \in ps : q.id = g.user_id}
      xs == {x \in IF table = "workout_exercises" THEN rows
                   ELSE workout_exercises :
               /\ \E w \in ws : w.id = x.workout_id
               /\ x.exercise_id \in DOMAIN es}
  IN  /\ profiles' = ps /\ exercises' = es /\ workouts' = ws
      /\ user_goals' = gs /\ workout_exercises' = xs

\* What a request's filter selects: every row, or the row with one key.
Filters(table) == {RowsIn(table)} \cup {{r} : r \in RowsIn(table)}

\* The columns a request sets, ownership among them.
Patches(table) ==
  CASE table = "profiles" ->
         {<<"id", u>> : u \in Uids} \cup {<<"full_name", "Eve">>}
    [] table = "workouts" ->
         {<<"user_id", u>> : u \in Uids}
    [] table = "workout_exercises" ->
         {<<"workout_id", w>> : w \in 1..2}
    [] table = "user_goals" ->
         {<<"user_id", u>> : u \in Uids}
    [] table = "exercises" -> {<<"category", "Eve">>}

\* The rows a request inserts, of either owner.
NewRows(table) ==
  CASE table = "profiles" ->
         {[id |-> u, full_name |-> "Eve", created_at |-> now,
           updated_at |-> now] : u \in Uids}
    [] table = "workouts" ->
         {[id |-> nextId, user_id |-> u, name |-> "Eve", date |-> StartDay,
           duration_minutes |-> 0] : u \in Uids}
    [] table = "workout_exercises" ->
         {[id |-> nextId, workout_id |-> w, exercise_id |-> "Plank",
           sets |-> 1, reps |-> <<10>>, weight |-> <<0>>,
           rest_seconds |-> 60] : w \in 1..2}
    [] table = "user_goals" ->
         {[id |-> nextId, user_id |-> u, type |-> "Eve",
           target_value |-> 10, current_value |-> 0, target_date |-> "null",
           achieved |-> FALSE, created_at |-> now] : u \in Uids}
    [] table = "exercises" -> {[name |-> "Eve", category |-> "Eve"]}

\* The rows of the filter F that a command op of uid acts on.
Hit(uid, table, op, F) ==
  IF Permits(table, op)
    THEN {r \in F : Using(uid, table, r, workouts)}
    ELSE {}

Replied(uid, table, op, rows, error) ==
  reply' = [uid |-> uid, table |-> table, op |-> op, rows |-> rows,
            error |-> error]

RequestSelect(uid, table, F) ==
  /\ Replied(uid, table, "select", Hit(uid, table, "select", F), FALSE)
  /\ UNCHANGED <<store, now, auth, currentView, pv, wv, wf, sv, alertMsg,
                 dialog, gv, dash, inputs>>

RequestDelete(uid, table, F) ==
  LET hit == Hit(uid, table, "delete", F)
  IN  /\ Stored(table, RowsIn(table) \ hit)
      /\ Replied(uid, table, "delete", hit, FALSE)
      /\ UNCHANGED <<nextId, now, auth, currentView, pv, wv, wf, sv,
                     alertMsg, dialog, gv, dash, inputs>>

\* An update: the new rows are checked against the policy and the keys; a
\* key that other rows reference cannot change.
RequestUpdate(uid, table, F, p) ==
  LET hit == Hit(uid, table, "update", F)
      new == {Patched(r, p) : r \in hit}
      after == (RowsIn(table) \ hit) \cup new
      ok == /\ \A n \in new : Using(uid, table, n, workouts)
            /\ Constraints(table, after)
            /\ table = "profiles" =>
                 \A r \in hit :
                   Patched(r, p).id # r.id =>
                     ~\E c \in workouts \cup user_goals : c.user_id = r.id
  IN  /\ IF ok
           THEN /\ Stored(table, after)
                /\ Replied(uid, table, "update", new, FALSE)
           ELSE /\ UNCHANGED <<profiles, workouts, workout_exercises,
                               user_goals, exercises>>
                /\ Replied(uid, table, "update", {}, TRUE)
      /\ UNCHANGED <<nextId, now, auth, currentView, pv, wv, wf, sv,
                     alertMsg, dialog, gv, dash, inputs>>

RequestInsert(uid, table, row) ==
  LET ok == /\ Permits(table, "insert")
            /\ Using(uid, table, row, workouts)
            /\ Constraints(table, RowsIn(table) \cup {row})
  IN  /\ nextId <= MaxRowId
      /\ IF ok
           THEN /\ Stored(table, RowsIn(table) \cup {row})
                /\ nextId' = IF table \in {"profiles", "exercises"}
                               THEN nextId ELSE nextId + 1
                /\ Replied(uid, table, "insert", {row}, FALSE)
           ELSE /\ UNCHANGED store
                /\ Replied(uid, table, "insert", {}, TRUE)
      /\ UNCHANGED <<now, auth, currentView, pv, wv, wf, sv, alertMsg,
                     dialog, gv, dash, inputs>>

\* The rows of the second identity.
OtherProfile ==
  [id |-> "u2", full_name |-> "Bea",
   created_at |-> (StartDay - 1) * TicksPerDay,
   updated_at |-> (StartDay - 1) * TicksPerDay]
OtherWorkout ==
  [id |-> 2, user_id |-> "u2", name |-> "Run", date |-> StartDay,
   duration_minutes |-> 30]
OtherRow ==
  [id |-> 2, workout_id |-> 2, exercise_id |-> "Burpees", sets |-> 1,
   reps |-> <<10>>, weight |-> <<0>>, rest_seconds |-> 60]
OtherGoal ==
  [id |-> 2, user_id |-> "u2", type |-> "Squats", target_value |-> 100,
   current_value |-> 10, target_date |-> "null", achieved |-> FALSE,
   created_at |-> 1]

\* A store with a profile, a workout with an exercise and a goal of each of
\* the two identities; no view is open.
InitPolicy ==
  /\ profiles = {SeedProfile, OtherProfile}
  /\ workouts = {SeedWorkout, OtherWorkout}
  /\ workout_exercises = {SeedRow, OtherRow}
  /\ user_goals = {SeedGoal, OtherGoal}
  /\ nextId = 3
  /\ now = StartDay * TicksPerDay
  /\ InitViews("closed", {})
  /\ InitAuth({}, "Ann")

NextPolicy ==
  \/ \E uid \in Uids : \E table \in Tables : \E F \in Filters(table) :
       RequestSelect(uid, table, F)
  \/ \E uid \in Uids : \E table \in Tables : \E F \in Filters(table) :
       RequestDelete(uid, table, F)
  \/ \E uid \in Uids : \E table \in Tables : \E F \in Filters(table) :
       \E p \in Patches(table) : RequestUpdate(uid, table, F, p)
  \/ \E uid \in Uids : \E table \in Tables : \E row \in NewRows(table) :
       RequestInsert(uid, table, row)

SpecPolicy == InitPolicy /\ [][NextPolicy]_vars

\* The account of uid is removed: its profile row goes with it, profiles.id
\* referencing auth.users ON DELETE CASCADE.
DeleteUser(uid) ==
  /\ \E q \in profiles : q.id = uid
  /\ Stored("profiles", {q \in profiles : q.id # uid})
  /\ UNCHANGED <<nextId, now, session, wv, wf, sv, alertMsg, dialog, gv,
                 dash, inputs>>

\* The store under the writes of the two identities and the removal of
\* their accounts.
NextIntegrity ==
  \/ \E uid \in Uids : \E table \in Tables \ {"exercises"} :
       \E F \in Filters(table) : RequestDelete(uid, table, F)
  \/ \E uid \in Uids : \E table \in Tables \ {"exercises"} :
       \E F \in Filters(table) : \E p \in Patches(table) :
         RequestUpdate(uid, table, F, p)
  \/ \E uid \in Uids : \E table \in Tables \ {"exercises"} :
       \E row \in NewRows(table) : RequestInsert(uid, table, row)
  \/ \E uid \in Uids : DeleteUser(uid)

SpecIntegrity == InitPolicy /\ [][NextIntegrity]_vars

\* Two tabs of the one identity, both on the Profile view, over a store
\* with or without its profile row, while the clock runs.
ProfileNames == {"Bea"}
MetadataNames == {"Ann", NoName}

InitProfile ==
  /\ profiles \in {{}, {SeedProfile}}
  /\ workouts = {} /\ workout_exercises = {} /\ user_goals = {}
  /\ nextId = 0
  /\ now = StartDay * TicksPerDay
  /\ \E name \in MetadataNames : InitAuth(AllTabs, name)
  /\ InitViews("profile", AllTabs)

ProfileNext(t) ==
  \/ \E ok \in BOOLEAN : ServeSelectProfile(t, ok)
  \/ \E ok \in BOOLEAN : ServeInsertProfile(t, ok)
  \/ \E n \in ProfileNames : SetFullName(t, n)
  \/ ProfileHandleSave(t)
  \/ \E ok \in BOOLEAN : ServeSaveProfile(t, ok)

NextProfile == Tick \/ \E t \in AllTabs : ProfileNext(t)

SpecProfile == InitProfile /\ [][NextProfile]_vars

InitDash ==
  /\ user_goals = {}
  /\ profiles = {SeedProfile}
  /\ workouts \in SUBSET DashWorkouts
  /\ workout_exercises =
       {r \in DashRows : \E w \in workouts : w.id = r.workout_id}
  /\ nextId = 6
  /\ now = StartDay * TicksPerDay
  /\ InitAuth({1}, "Ann")
  /\ InitViews("dashboard", {1})

NextDash ==
  \/ Tick
  \/ ReloadDashboard(1)
  \/ \E ok \in BOOLEAN : ServeDashWorkouts(1, ok)
  \/ \E ok \in BOOLEAN : ServeDashGoals(1, ok)
  \/ \E ok \in BOOLEAN : ServeDashRecent(1, ok)

SpecDash == InitDash /\ [][NextDash]_vars

\* ------------------------------------------------------------ properties
\* The rows of workout id among rows, in the order of their ids, without the
\* ids: what an insert of several rows wrote, in the order it wrote them.
RowsSeqOf(rows, id) ==
  LET rs == {r \in rows : r.workout_id = id}
      s == CHOOSE q \in Perms(rs) :
             \A i, j \in DOMAIN q : i < j => q[i].id < q[j].id
  IN  [k \in DOMAIN s |-> Plain(s[k])]
IsPrefix(a, b) == Len(a) <= Len(b) /\ a = SubSeq(b, 1, Len(a))
UpdateRequests == <<"update", "delete", "insert">>

\* C1: in update mode handleSave issues update, delete, insert in this order;
\* when the insert fails after the delete succeeded, the workout has no
\* workout_exercises rows, the error alert is raised, and the call has ended
\* with these three requests: nothing is rolled back or retried.
C1_UpdateThenDeleteThenInsert ==
  /\ [](\A t \in AllTabs :
          /\ sv[t].mode = "update" =>
               /\ IsPrefix(sv[t].log, UpdateRequests)
               /\ sv[t].pc # "idle" =>
                    IsPrefix(Append(sv[t].log, sv[t].pc), UpdateRequests)
          /\ (sv[t].mode = "update" /\ sv[t].result = "error"
              /\ sv[t].log = UpdateRequests) =>
               /\ RowsOf(sv[t].workoutId) = {}
               /\ sv[t].pc = "idle")
  /\ [][\A t \in AllTabs :
          (sv[t].pc = "insert" /\ sv[t].mode = "update"
           /\ sv'[t].result = "error") =>
            /\ sv[t].log = <<"update", "delete">>
            /\ sv'[t].log = UpdateRequests
            /\ sv'[t].pc = "idle"
            /\ alertMsg'[t] = "error"
            /\ workouts' = workouts
            /\ workout_exercises' = workout_exercises
            /\ RowsOf(sv[t].workoutId) = {}]_vars

\* C1's case: the insert of an edit failed and the workout, still stored,
\* has lost its rows.
C1_Witness ==
  \E t \in AllTabs :
    /\ sv[t].mode = "update" /\ sv[t].result = "error"
    /\ sv[t].log = UpdateRequests
    /\ Len(sv[t].mapped) > 0
    /\ \E w \in workouts : w.id = sv[t].workoutId
    /\ RowsOf(sv[t].workoutId) = {}

\* C3: every workout-exercise of the form has as many reps and as many
\* weights as it has sets.
C3_ArraysTrackSets ==
  \A t \in AllTabs : \A k \in DOMAIN wf[t].workoutExercises :
    LET x == wf[t].workoutExercises[k]
    IN  Len(x.reps) = x.sets /\ Len(x.weight) = x.sets

\* C4: no exercise of the form ever has less than one set; removeSet on an
\* exercise of one set changes nothing of the list, and on one of more sets
\* it takes one from sets, drops the last entry of reps and of weight, and
\* leaves the rest of the exercise and the other exercises as they were.
C4_RemoveSet ==
  /\ [](\A t \in AllTabs : \A k \in DOMAIN wf[t].workoutExercises :
          wf[t].workoutExercises[k].sets >= 1)
  /\ [][\A t \in AllTabs : \A i \in 1..MaxInputs :
          RemoveSet(t, i) =>
            LET old == wf[t].workoutExercises
                new == wf'[t].workoutExercises
            IN  IF old[i].sets = 1
                  THEN new = old
                  ELSE /\ Len(new) = Len(old)
                       /\ \A k \in DOMAIN old : k # i => new[k] = old[k]
                       /\ new[i].sets = old[i].sets - 1
                       /\ new[i].reps =
                            SubSeq(old[i].reps, 1, Len(old[i].reps) - 1)
                       /\ new[i].weight =
                            SubSeq(old[i].weight, 1, Len(old[i].weight) - 1)
                       /\ new[i].exercise_id = old[i].exercise_id
                       /\ new[i].rest_seconds = old[i].rest_seconds]_vars

\* C4's case: removeSet has brought an exercise down to one set.
C4_Witness ==
  \E t \in AllTabs : \E k \in DOMAIN wf[t].workoutExercises :
    LET x == wf[t].workoutExercises[k]
    IN  x.sets = 1 /\ Len(x.reps) = 1 /\ Len(x.weight) = 1

\* C5: a save of a new workout adds exactly one workouts row, with the
\* fields of the form and no rows yet; when its insert of n >= 1 exercises
\* succeeds, the workout has exactly n workout_exercises rows, the k-th with
\* the sets, reps and weight of the k-th exercise the save holds, and no
\* other row of the store has changed.
C5_CreatePersistsExercises ==
  [][\A t \in AllTabs :
       /\ (sv[t].pc = "create" /\ sv'[t].pc = "insert") =>
            \E w \in workouts' :
              /\ w \notin workouts
              /\ workouts' = workouts \cup {w}
              /\ w.id = sv'[t].workoutId
              /\ w.id \notin {x.id : x \in workouts}
              /\ w.name = sv[t].name
              /\ {r \in workout_exercises' : r.workout_id = w.id} = {}
       /\ (sv[t].pc = "insert" /\ sv[t].mode = "create"
           /\ sv'[t].result = "saved") =>
            LET id == sv[t].workoutId
            IN  /\ Len(sv[t].mapped) >= 1
                /\ Cardinality({r \in workout_exercises' : r.workout_id = id})
                     = Len(sv[t].mapped)
                /\ RowsSeqOf(workout_exercises', id) = sv[t].mapped
                /\ Cardinality({w \in workouts' : w.id = id}) = 1
                /\ workouts' = workouts
                /\ {r \in workout_exercises' : r.workout_id # id}
                     = {r \in workout_exercises : r.workout_id # id}]_vars

\* C5's case: a new workout of two exercises of three sets was saved, and
\* the store holds two rows for it, with three reps and three weights each.
C5_Witness ==
  \E t \in AllTabs :
    /\ sv[t].mode = "create" /\ sv[t].result = "saved"
    /\ Len(sv[t].mapped) = 2
    /\ \A k \in 1..2 : sv[t].mapped[k].sets = 3
    /\ Cardinality(RowsOf(sv[t].workoutId)) = 2
    /\ \A r \in RowsOf(sv[t].workoutId) :
         r.sets = 3 /\ Len(r.reps) = 3 /\ Len(r.weight) = 3

\* C6: every workout_exercises row references a stored workout; a delete of
\* handleDeleteWorkout that succeeds leaves no row of the workout and starts
\* the re-fetch, and the list that re-fetch brings does not hold the workout.
C6_DeleteCascades ==
  /\ [](\A r \in workout_exercises : \E w \in workouts : w.id = r.workout_id)
  /\ [][\A t \in AllTabs : \A i \in 1..MaxInputs :
          /\ ServeDeleteWorkout(t, i, TRUE) =>
               LET id == wv[t].deletes[i]
               IN  /\ {r \in workout_exercises' : r.workout_id = id} = {}
                   /\ \A w \in workouts' : w.id # id
                   /\ Len(wv'[t].loads) = Len(wv[t].loads) + 1
                   /\ Last(wv'[t].loads) = [SentLoad EXCEPT !.del = id]
          /\ (DeliverLoadWorkouts(t, i) /\ wv[t].loads[i].st = "ok"
              /\ wv[t].loads[i].del # 0) =>
               /\ wv'[t].workouts = wv[t].loads[i].data
               /\ \A k \in DOMAIN wv'[t].workouts :
                    wv'[t].workouts[k].id # wv[t].loads[i].del]_vars

\* C6's case: the listed workout 1, which had a row, was deleted after a
\* yes, and the re-fetch has brought a list without it.
C6_Witness ==
  \E t \in AllTabs :
    /\ dialog[t] = [kind |-> "workout", id |-> 1, answer |-> TRUE]
    /\ \A w \in workouts : w.id # 1
    /\ RowsOf(1) = {}
    /\ wv[t].deletes = <<>> /\ wv[t].loads = <<>> /\ ~wv[t].loading
    /\ \A k \in DOMAIN wv[t].workouts : wv[t].workouts[k].id # 1

\* C7: a delete request of a workout or of a goal is issued only in the step
\* in which confirm() for that row was answered yes; a step in which it was
\* answered no issues no request and changes neither the store nor a view.
C7_DeleteOnlyAfterConfirm ==
  [][\A t \in AllTabs :
       /\ Len(wv'[t].deletes) > Len(wv[t].deletes) =>
            dialog'[t] = [kind |-> "workout", id |-> Last(wv'[t].deletes),
                          answer |-> TRUE]
       /\ (Len(gv'[t].writes) > Len(gv[t].writes)
           /\ Last(gv'[t].writes).op = "delete") =>
            dialog'[t] = [kind |-> "goal", id |-> Last(gv'[t].writes).id,
                          answer |-> TRUE]
       /\ \A k \in 1..MaxInputs :
            (HandleDeleteWorkout(t, k, FALSE) \/ HandleDelete(t, k, FALSE)) =>
              /\ store' = store
              /\ wv' = wv /\ gv' = gv /\ wf' = wf /\ sv' = sv]_vars

\* C7's case: the user said no to the delete of a listed row, which is
\* still stored, and no request is in flight.
C7_Witness ==
  \E t \in AllTabs :
    /\ dialog[t].kind # "none" /\ ~dialog[t].answer
    /\ dialog[t].kind = "workout" =>
         /\ \E w \in workouts : w.id = dialog[t].id
         /\ wv[t].deletes = <<>>
    /\ dialog[t].kind = "goal" =>
         /\ \E g \in user_goals : g.id = dialog[t].id
         /\ gv[t].writes = <<>>

\* C2: when the saves of both tabs of the same workout have ended with
\* success, the stored workout and its rows are those of one of the two
\* saves: the row has that save's name, date and duration, and the rows are
\* that save's exercises.
C2_LastWriteWins ==
  (\A t \in AllTabs :
     sv[t].mode = "update" /\ sv[t].result = "saved" /\ sv[t].pc = "idle"
     /\ sv[t].workoutId = 1) =>
    \E t \in AllTabs :
      /\ \E w \in workouts :
           /\ w.id = 1
           /\ w.name = sv[t].name
           /\ w.date = sv[t].date
           /\ w.duration_minutes = sv[t].durationMinutes
      /\ RowsSeqOf(workout_exercises, 1) = sv[t].mapped

\* current/target*100 clamped to [0, 100], as a fraction of p's denominator.
IsClamped(p, c, t) ==
  LET n == IF t > 0 THEN c * 100 ELSE (0 - c) * 100
      d == IF t > 0 THEN t ELSE 0 - t
  IN  IF n < 0 THEN p.n = 0
      ELSE IF n > 100 * d THEN p.n = 100 * p.d
      ELSE p.n * d = n * p.d

\* C8: for every listed goal the progress is a number from 0 to 100, and it
\* is current/target*100 clamped to that range.
C8_ProgressClamped ==
  \A t \in AllTabs : \A k \in DOMAIN gv[t].goals :
    LET g == gv[t].goals[k]
        p == getProgress(g)
    IN  /\ p.kind = "num"
        /\ 0 <= p.n /\ p.n <= 100 * p.d
        /\ g.target_value # 0 =>
             IsClamped(p, g.current_value, g.target_value)

\* C9: for a listed goal with target 0 and a positive current value,
\* getProgress returns a number from 0 to 100.
C9_ZeroTargetProgress ==
  \A t \in AllTabs : \A k \in DOMAIN gv[t].goals :
    LET g == gv[t].goals[k]
        p == getProgress(g)
    IN  (g.target_value = 0 /\ g.current_value > 0) =>
          p.kind = "num" /\ 0 <= p.n /\ p.n <= 100 * p.d

\* C9's case: the view lists a goal with target 0 and a positive current
\* value.
C9_Witness ==
  \E t \in AllTabs : \E k \in DOMAIN gv[t].goals :
    /\ gv[t].goals[k].target_value = 0
    /\ gv[t].goals[k].current_value > 0
    /\ ~gv[t].loading

\* C10: the weeklyWorkouts the Dashboard shows is the number of fetched
\* workouts dated on or after the day seven days before the day the stats
\* were computed: a workout dated seven days before is counted, one dated
\* eight days before is not.
C10_WeeklyCountsSevenDays ==
  \A t \in AllTabs :
    dash[t].pc \in {"recent", "done"} =>
      dash[t].stats.weeklyWorkouts =
        Cardinality({w \in dash[t].fetched :
                       w.date >= (dash[t].computedAt \div TicksPerDay)
                                   - WeekDays})

RECURSIVE MinutesUpTo(_, _)
\* The minutes of the workouts of ws with ids 1..k, none for a workout
\* without a duration.
MinutesUpTo(ws, k) ==
  IF k = 0 THEN 0
  ELSE MinutesUpTo(ws, k - 1)
         + (IF \E w \in ws : w.id = k /\ w.duration_minutes # Null
              THEN (CHOOSE w \in ws : w.id = k).duration_minutes
              ELSE 0)
OwnWorkouts == {w \in workouts : w.user_id = User}

\* C11: when loadDashboardData has ended with success, totalMinutes is the
\* sum of duration_minutes over the workouts of the identity, a workout
\* without a duration adding 0, and it is 0 when there is no workout.
C11_TotalMinutes ==
  \A t \in AllTabs :
    dash[t].pc = "done" =>
      /\ dash[t].stats.totalMinutes = MinutesUpTo(OwnWorkouts, nextId)
      /\ OwnWorkouts = {} => dash[t].stats.totalMinutes = 0

\* C11's case: the load has ended over several workouts, one of them
\* without a duration.
C11_Witness ==
  \E t \in AllTabs :
    /\ dash[t].pc = "done"
    /\ Cardinality(OwnWorkouts) >= 3
    /\ \E w \in OwnWorkouts : w.duration_minutes = Null
    /\ dash[t].stats.totalMinutes > 0

\* C13: before any load has computed them the stats are the zeros of the
\* initial state; a step in which the workouts query or the goals query
\* fails leaves the stats and the recent workouts as they were, raises no
\* alert, writes nothing to the store, and ends with loading false.
C13_FailedFetchKeepsStats ==
  /\ [](\A t \in AllTabs : dash[t].computedAt = 0 => dash[t].stats = ZeroStats)
  /\ [][\A t \in AllTabs :
          (dash[t].pc \in {"workouts", "goals"} /\ dash'[t].pc = "failed") =>
            /\ dash'[t].stats = dash[t].stats
            /\ dash'[t].recentWorkouts = dash[t].recentWorkouts
            /\ dash'[t].logged = dash[t].pc
            /\ ~dash'[t].loading
            /\ alertMsg' = alertMsg
            /\ store' = store]_vars

\* C13's case: after a load that had set the stats, the workouts query or
\* the goals query of a later load has failed, and the stats are still set.
C13_Witness ==
  \E t \in AllTabs :
    /\ dash[t].pc = "failed" /\ dash[t].logged \in {"workouts", "goals"}
    /\ dash[t].stats.totalWorkouts > 0
    /\ ~dash[t].loading

\* C14: when loadDashboardData has ended with success, recentWorkouts holds
\* RecentLimit workouts of the identity, or all when they are fewer, each
\* once and as stored, in descending order of date, no workout left out is
\* dated after a listed one, and each exercise_count is the number of
\* workout_exercises rows of that workout.
C14_RecentWorkouts ==
  \A t \in AllTabs :
    dash[t].pc = "done" =>
      LET rw == dash[t].recentWorkouts
      IN  /\ Len(rw) <= 5
          /\ Len(rw) = Min(Cardinality(OwnWorkouts), 5)
          /\ \A i, j \in DOMAIN rw :
               /\ i # j => rw[i].id # rw[j].id
               /\ i < j => rw[i].date >= rw[j].date
          /\ \A i \in DOMAIN rw :
               /\ \E w \in OwnWorkouts :
                    /\ w.id = rw[i].id /\ w.name = rw[i].name
                    /\ w.date = rw[i].date
                    /\ w.duration_minutes = rw[i].duration_minutes
               /\ rw[i].exercise_count =
                    Cardinality({r \in workout_exercises :
                                   r.workout_id = rw[i].id})
          /\ \A w \in OwnWorkouts :
               (\A i \in DOMAIN rw : rw[i].id # w.id) =>
                 \A i \in DOMAIN rw : w.date <= rw[i].date

\* C14's case: six workouts are stored, and the load has ended with the
\* five latest, one of them with two exercises.
C14_Witness ==
  \E t \in AllTabs :
    /\ dash[t].pc = "done"
    /\ Cardinality(OwnWorkouts) = 6
    /\ Len(dash[t].recentWorkouts) = 5
    /\ \E i \in DOMAIN dash[t].recentWorkouts :
         dash[t].recentWorkouts[i].exercise_count = 2

\* C12: a goal enters the store with achieved false, and the achieved flag
\* of a stored goal changes only in a step that applies a request of
\* toggleAchieved for that goal; a request of handleSubmit, whatever
\* current_value and target_value it carries, leaves the flag as it was.
C12_AchievedOnlyByToggle ==
  [][\A g2 \in user_goals' :
       /\ (\A g \in user_goals : g.id # g2.id) => ~g2.achieved
       /\ \A g \in user_goals :
            (g.id = g2.id /\ g.achieved # g2.achieved) =>
              \E t \in AllTabs : \E i \in DOMAIN gv[t].writes :
                /\ gv[t].writes[i].op = "toggle"
                /\ gv[t].writes[i].id = g.id
                /\ Len(gv'[t].writes) = Len(gv[t].writes) - 1
                /\ \A j \in DOMAIN gv'[t].writes :
                     gv'[t].writes[j].op # "toggle"
                       => \E k \in DOMAIN gv[t].writes :
                            k # i /\ gv[t].writes[k] = gv'[t].writes[j]]_vars

\* C12's case: the form has raised the current value of the stored goal
\* above its target, and the goal is still not achieved.
C12_Witness ==
  \E g \in user_goals :
    /\ g.id = SeedGoal.id
    /\ g.current_value = 250 /\ g.target_value = 200
    /\ ~g.achieved
    /\ \A t \in AllTabs : gv[t].writes = <<>> /\ gv[t].loads = <<>>

\* C15: when the Goals view has no request in flight, the list it holds is
\* the goals of the identity in the store.
C15_ListEqualsStore ==
  \A t \in AllTabs :
    (currentView[t] = "goals" /\ gv[t].loads = <<>> /\ gv[t].writes = <<>>) =>
      /\ Range(gv[t].goals) = {g \in user_goals : g.user_id = User}
      /\ Len(gv[t].goals) = Cardinality(user_goals)

\* C16: the store never holds two profile rows of one identity; a profile
\* row enters the store only in the step that answers the insert of a
\* loadProfile whose select found none, with the id of the identity and its
\* display name, or the empty name when it has none; and when a loadProfile
\* ends without error the store holds exactly one row of the identity, which
\* the view holds.
C16_OneProfilePerIdentity ==
  /\ [](\A p, q \in profiles : p.id = q.id => p = q)
  /\ [][\A p \in profiles' :
          (\A q \in profiles : q.id # p.id) =>
            \E t \in AllTabs :
              /\ pv[t].pc = "insert" /\ pv'[t].pc = "done"
              /\ p.id = auth[t].user[1].id
              /\ p.full_name = (IF auth[t].user[1].full_name = NoName
                                  THEN "" ELSE auth[t].user[1].full_name)
              /\ pv'[t].profile = <<p>>]_vars
  /\ [][\A t \in AllTabs :
          (pv[t].pc \in {"select", "insert"} /\ pv'[t].pc = "done") =>
            /\ Cardinality({p \in profiles' : p.id = auth[t].user[1].id}) = 1
            /\ \E p \in profiles' :
                 p.id = auth[t].user[1].id /\ pv'[t].profile = <<p>>
            /\ ~pv'[t].loading]_vars

\* C16's case: both tabs found no profile row and went on to the insert;
\* one created the row, the insert of the other failed, and the store holds
\* the one row, with the empty name of an identity without a display name.
C16_Witness ==
  /\ pv[1].pc = "done" /\ pv[2].pc = "failed"
  /\ Cardinality(profiles) = 1
  /\ \E p \in profiles : p.full_name = "" /\ pv[1].profile = <<p>>
  /\ auth[1].user[1].full_name = NoName

\* C17: a step in which Profile.handleSave reports success leaves in the
\* store the profile row of the identity with the name and the time the
\* request carried, its created_at as before, and in the view a profile
\* with the same name.
C17_SaveStoresName ==
  [][\A t \in AllTabs :
       (pv[t].save # <<>> /\ pv'[t].save = <<>>
        /\ alertMsg'[t] = "profile updated") =>
         \E p \in profiles' :
           /\ p.id = pv[t].save[1].id
           /\ p.full_name = pv[t].save[1].full_name
           /\ p.updated_at = pv[t].save[1].updated_at
           /\ \E q \in profiles : q.id = p.id /\ q.created_at = p.created_at
           /\ pv'[t].profile # <<>>
           /\ pv'[t].profile[1].full_name = p.full_name]_vars

\* The views of tab t that are mounted.
MountedViews(t) ==
  {n \in {"Dashboard", "Workouts", "Goals", "Profile"} :
     \/ n = "Dashboard" /\ dash[t] # NoDashboard
     \/ n = "Workouts" /\ wv[t] # NoWorkoutsView
     \/ n = "Goals" /\ gv[t] # NoGoalsView
     \/ n = "Profile" /\ pv[t] # NoProfileView}

\* C18: App shows the loading indicator exactly while the identity check is
\* pending and the authentication view exactly when the check is done with
\* no identity, and then no view is mounted; with an identity exactly the
\* one view that currentView selects is mounted, the Dashboard before any
\* navigation and for a value that names no view; and currentView changes
\* only by onViewChange, with an id of the navigation, in a tab with an
\* identity.
C18_ShellShowsOneView ==
  /\ [](\A t \in AllTabs :
          /\ ScreenOf(auth[t], currentView[t]) = "Spinner" <=> auth[t].loading
          /\ ScreenOf(auth[t], currentView[t]) = "Auth"
               <=> (~auth[t].loading /\ auth[t].user = <<>>)
          /\ (auth[t].loading \/ auth[t].user = <<>>) => MountedViews(t) = {}
          /\ (~auth[t].loading /\ auth[t].user # <<>>) =>
               MountedViews(t) =
                 {CASE currentView[t] = "dashboard" -> "Dashboard"
                    [] currentView[t] = "workouts" -> "Workouts"
                    [] currentView[t] = "goals" -> "Goals"
                    [] currentView[t] = "profile" -> "Profile"}
          /\ inputs = 0 => currentView[t] = "dashboard"
          /\ ScreenOf([loading |-> FALSE, user |-> <<Identity("Ann")>>],
                      "settings") = "Dashboard")
  /\ [][currentView' # currentView =>
          \E t \in AllTabs : \E v \in {"dashboard", "workouts", "goals",
                                       "profile"} :
            /\ currentView' = [currentView EXCEPT ![t] = v]
            /\ ~auth[t].loading /\ auth[t].user # <<>>
            /\ auth' = auth
            /\ inputs' = inputs + 1]_vars

\* C18's case: the user went to the Goals view, which loaded, and signed
\* out: the authentication view is shown over currentView = goals, and no
\* view is mounted.
C18_Witness ==
  /\ ~auth[1].loading /\ auth[1].user = <<>>
  /\ currentView[1] = "goals"
  /\ MountedViews(1) = {}

\* The owner of a row of a table, ws being the workouts.
OwnerOf(table, r, ws) ==
  CASE table = "profiles" -> r.id
    [] table \in {"workouts", "user_goals"} -> r.user_id
    [] table = "workout_exercises" ->
         IF \E w \in ws : w.id = r.workout_id
           THEN (CHOOSE w \in ws : w.id = r.workout_id).user_id
           ELSE "nobody"
    [] OTHER -> "everybody"

\* The rows that b owns in the store made of ps, ws, xs and gs.
OwnedRows(b, ps, ws, xs, gs) ==
  <<{r \in ps : OwnerOf("profiles", r, ws) = b},
    {r \in ws : OwnerOf("workouts", r, ws) = b},
    {r \in xs : OwnerOf("workout_exercises", r, ws) = b},
    {r \in gs : OwnerOf("user_goals", r, ws) = b}>>

\* C19: whatever another identity requests of the store, the profile,
\* workouts, workout exercises and goals that an identity owns stay as they
\* are - none is changed or deleted and none is created for it - and no
\* row of the answer is owned by anybody but the caller, the catalog apart.
C19_PoliciesIsolateOwners ==
  [][\A a \in {"u1", "u2"} : \A b \in {"u1", "u2"} \ {a} :
       reply'.uid = a =>
         /\ OwnedRows(b, profiles', workouts', workout_exercises',
                      user_goals')
              = OwnedRows(b, profiles, workouts, workout_exercises,
                          user_goals)
         /\ reply'.table # "exercises" =>
              \A r \in reply'.rows :
                /\ OwnerOf(reply'.table, r, workouts) # b
                /\ OwnerOf(reply'.table, r, workouts') # b]_vars

\* C19's case: u1 asked to delete every workout: its own workout is gone
\* with its exercise, and the workout of u2 is there with its exercise.
C19_Witness ==
  /\ reply.uid = "u1" /\ reply.table = "workouts" /\ reply.op = "delete"
  /\ reply.rows # {}
  /\ \A w \in workouts : w.user_id = "u2"
  /\ workouts # {}
  /\ \E x \in workout_exercises : x.workout_id = 2

\* C20: the exercise catalog stays what the migration seeded, whatever is
\* requested of the store: an insert, an update or a delete on exercises
\* writes nothing.
C20_CatalogReadOnly ==
  /\ [](/\ DOMAIN exercises =
             {"Push-ups", "Squats", "Pull-ups", "Bench Press", "Deadlift",
              "Plank", "Lunges", "Burpees"}
        /\ exercises["Plank"] = "Core"
        /\ (reply.table = "exercises" /\ reply.op # "select") =>
             reply.rows = {})
  /\ [][exercises' = exercises]_vars

\* C20's case: an identity asked to delete the catalog and no row was
\* deleted; it asked to insert an exercise and got an error.
C20_Witness ==
  /\ reply.table = "exercises"
  /\ reply.op = "insert" /\ reply.error
  /\ "Eve" \notin DOMAIN exercises

\* C21: a step that makes the list of a new workout's form longer is an
\* addExercise: the list is the list before with one element more at its
\* end, for an exercise the picker listed, with sets = 3,
\* reps = [10, 10, 10] and weight = [0, 0, 0]; the elements before keep
\* their values and their order; the picker is closed and the search term
\* empty; and the store and the saves in flight are as they were, no
\* request being made.
C21_AddExerciseAppendsOne ==
  [][\A t \in AllTabs :
       (/\ wf[t].mounted /\ wf'[t].mounted
        /\ Len(wf'[t].workoutExercises) > Len(wf[t].workoutExercises)) =>
         LET old == wf[t].workoutExercises
             new == wf'[t].workoutExercises
         IN  /\ Len(new) = Len(old) + 1
             /\ \A k \in 1..Len(old) : Plain(new[k]) = Plain(old[k])
             /\ new[Len(new)].exercise_id \in wf[t].exercises
             /\ new[Len(new)].sets = 3
             /\ new[Len(new)].reps = <<10, 10, 10>>
             /\ new[Len(new)].weight = <<0, 0, 0>>
             /\ wf[t].showExerciseSelector /\ ~wf'[t].showExerciseSelector
             /\ wf'[t].searchTerm = ""
             /\ wf'[t].workout = wf[t].workout
             /\ wf'[t].name = wf[t].name
             /\ store' = store /\ sv' = sv /\ wv' = wv]_vars

\* C21's case: an exercise was added after an entry that had been edited:
\* the list holds the edited entry first and the seeded one at its end,
\* and the picker is closed.
C21_Witness ==
  /\ wf[1].mounted /\ ~wf[1].showExerciseSelector
  /\ Len(wf[1].workoutExercises) = 2
  /\ wf[1].workoutExercises[1].sets # 3
  /\ wf[1].workoutExercises[2].sets = 3
  /\ wf[1].workoutExercises[2].reps = <<10, 10, 10>>
  /\ wf[1].workoutExercises[2].weight = <<0, 0, 0>>

\* The exercises of the seeded catalog whose name or category holds the
\* term, letter case apart, written out term by term.
Listing(term) ==
  CASE term = "" -> {"Push-ups", "Squats", "Pull-ups", "Bench Press",
                     "Deadlift", "Plank", "Lunges", "Burpees"}
    [] term = "p" -> {"Push-ups", "Pull-ups", "Bench Press", "Plank",
                      "Burpees"}
    [] term = "BODY" -> {"Push-ups", "Squats", "Pull-ups", "Lunges"}
    [] term = "core" -> {"Plank"}
    [] term = "Lift" -> {"Bench Press", "Deadlift"}
    [] term = "Ups" -> {"Push-ups", "Pull-ups"}
    [] term = "zz" -> {}
    [] term = "pushups" -> {}

\* C22: the picker lists, of the exercises the form fetched, exactly those
\* whose name or category holds the search term, letter case apart, and
\* all of them for the empty term; and the exercise that addExercise adds
\* is one the picker listed for the term of that moment.
C22_PickerListsMatches ==
  /\ [](\A t \in AllTabs :
          wf[t].mounted =>
            FilteredExercises(wf[t].exercises, wf[t].searchTerm)
              = Listing(wf[t].searchTerm) \cap wf[t].exercises)
  /\ [][\A t \in AllTabs :
          (/\ wf[t].mounted /\ wf'[t].mounted
           /\ Len(wf'[t].workoutExercises) > Len(wf[t].workoutExercises)) =>
            wf'[t].workoutExercises[Len(wf'[t].workoutExercises)].exercise_id
              \in Listing(wf[t].searchTerm)]_vars

\* C22's case: the catalog is fetched, the picker is open on a term in
\* capitals that only categories hold, and an exercise was added before
\* under a term in another case than the name it matched.
C22_Witness ==
  /\ wf[1].mounted /\ wf[1].showExerciseSelector
  /\ wf[1].exercises # {}
  /\ wf[1].searchTerm = "BODY"
  /\ Len(wf[1].workoutExercises) = 1
  /\ wf[1].workoutExercises[1].exercise_id = "Deadlift"

\* C23: in every state of the store each workout and each goal is of a
\* profile that exists and each workout exercise is of a workout and of an
\* exercise that exist; a step that removes a profile leaves no workout
\* and no goal of it, and a step that removes a workout leaves no exercise
\* row of it; and a workout or goal that a step creates is of a profile
\* that existed.
C23_ReferentialIntegrity ==
  /\ [](/\ \A w \in workouts \cup user_goals :
             \E q \in profiles : q.id = w.user_id
        /\ \A x \in workout_exercises :
             /\ \E w \in workouts : w.id = x.workout_id
             /\ x.exercise_id \in DOMAIN exercises)
  /\ [][/\ \A q \in profiles :
             (~\E r \in profiles' : r.id = q.id) =>
               ~\E w \in workouts' \cup user_goals' : w.user_id = q.id
        /\ \A w \in workouts :
             (~\E v \in workouts' : v.id = w.id) =>
               ~\E x \in workout_exercises' : x.workout_id = w.id
        /\ \A w \in (workouts' \ workouts) \cup (user_goals' \ user_goals) :
             \E q \in profiles : q.id = w.user_id]_vars

\* C23's case: the account of u2 was removed, and its workout, its
\* exercise row and its goal went with the profile while those of u1
\* stayed; u2 then asked to insert a workout and was refused.
C23_Witness ==
  /\ ~\E q \in profiles : q.id = "u2"
  /\ \E q \in profiles : q.id = "u1"
  /\ \E w \in workouts : w.user_id = "u1"
  /\ \E x \in workout_exercises : x.workout_id = 1
  /\ reply.uid = "u2" /\ reply.table = "workouts" /\ reply.op = "insert"
  /\ reply.error

\* The list without its i-th element.
Without(list, i) ==
  [k \in 1..(Len(list) - 1) |-> IF k < i THEN list[k] ELSE list[k + 1]]

\* C24: the end of a load of the Workouts or the Goals view sets loading to
\* false, and when the load failed leaves the list as it was; a failed
\* loadProfile leaves the profile as it was with loading false; none of
\* them raises an alert; and a load that was started ends: the view is
\* later without a load in flight and with loading false.
C24_FailedLoadSwallowed ==
  /\ [][\A t \in AllTabs :
          /\ Len(wv'[t].loads) < Len(wv[t].loads) =>
               /\ ~wv'[t].loading /\ alertMsg' = alertMsg
               /\ \A i \in DOMAIN wv[t].loads :
                    (wv'[t].loads = Without(wv[t].loads, i)
                     /\ wv[t].loads[i].st = "err") =>
                      wv'[t].workouts = wv[t].workouts
          /\ Len(gv'[t].loads) < Len(gv[t].loads) =>
               /\ ~gv'[t].loading /\ alertMsg' = alertMsg
               /\ \A i \in DOMAIN gv[t].loads :
                    (gv'[t].loads = Without(gv[t].loads, i)
                     /\ gv[t].loads[i].st = "err") =>
                      gv'[t].goals = gv[t].goals
          /\ (pv[t].pc # "failed" /\ pv'[t].pc = "failed") =>
               /\ ~pv'[t].loading /\ alertMsg' = alertMsg
               /\ pv'[t].profile = pv[t].profile]_vars
  /\ \A t \in {1} :
       /\ (wv[t].loads # <<>>) ~> (wv[t].loads = <<>> /\ ~wv[t].loading)
       /\ (gv[t].loads # <<>>) ~> (gv[t].loads = <<>> /\ ~gv[t].loading)
       /\ (pv[t].pc \in {"select", "insert"})
            ~> (pv[t].pc \in {"done", "failed"} /\ ~pv[t].loading)

\* C24's case: a goal was toggled and the load that followed failed: the
\* view is idle with loading false and still lists the goal as it fetched
\* it before, not as the store has it now.
C24_Witness ==
  /\ gv[1].loads = <<>> /\ gv[1].writes = <<>> /\ ~gv[1].loading
  /\ Len(gv[1].goals) = 1
  /\ ~gv[1].goals[1].achieved
  /\ \E g \in user_goals : g.id = gv[1].goals[1].id /\ g.achieved

\* C25: the answer to a confirmed delete of a workout is one of two: the
\* delete was done, the workout and its exercise rows are not in the store
\* and one load is started; or it was rejected, and the workouts and their
\* exercise rows are as they were, no load is started, the view's list
\* and its loading flag are as they were and no alert is raised.
C25_RejectedDeleteIsSilent ==
  [][\A t \in AllTabs : \A i \in DOMAIN wv[t].deletes :
       wv'[t].deletes = Without(wv[t].deletes, i) =>
         \/ /\ ~\E w \in workouts' : w.id = wv[t].deletes[i]
            /\ ~\E x \in workout_exercises' :
                 x.workout_id = wv[t].deletes[i]
            /\ Len(wv'[t].loads) = Len(wv[t].loads) + 1
         \/ /\ workouts' = workouts
            /\ workout_exercises' = workout_exercises
            /\ wv'[t].loads = wv[t].loads
            /\ wv'[t].workouts = wv[t].workouts
            /\ wv'[t].loading = wv[t].loading
            /\ alertMsg' = alertMsg]_vars

\* C25's case: the user confirmed the delete of the listed workout and the
\* store rejected it: no request is in flight, the workout and its
\* exercise row are in the store and the view lists the workout.
C25_Witness ==
  /\ dialog[1].kind = "workout" /\ dialog[1].answer
  /\ wv[1].deletes = <<>> /\ wv[1].loads = <<>> /\ ~wv[1].loading
  /\ \E w \in workouts : w.id = dialog[1].id
  /\ \E x \in workout_exercises : x.workout_id = dialog[1].id
  /\ Len(wv[1].workouts) = 1 /\ wv[1].workouts[1].id = dialog[1].id

\* C26: the value a toggleAchieved sends is the negation of the achieved
\* flag of the goal in the list the view holds at the click, whatever the
\* store holds; the store sets the flag to the value sent; so the toggles
\* of a goal that were all started before any write was answered, hence
\* before any load after the first one ended, all send the same value.
C26_ToggleWritesSnapshotNegation ==
  /\ [][\A t \in AllTabs :
          /\ Len(gv'[t].writes) > Len(gv[t].writes) =>
               LET w == gv'[t].writes[Len(gv'[t].writes)]
               IN  w.op = "toggle" =>
                     \E k \in DOMAIN gv[t].goals :
                       /\ gv[t].goals[k].id = w.id
                       /\ w.achieved = ~gv[t].goals[k].achieved
          /\ \A i \in DOMAIN gv[t].writes :
               (/\ gv'[t].writes = Without(gv[t].writes, i)
                /\ gv[t].writes[i].op = "toggle"
                /\ Len(gv'[t].loads) > Len(gv[t].loads)) =>
                 \A g \in user_goals' :
                   g.id = gv[t].writes[i].id =>
                     g.achieved = gv[t].writes[i].achieved]_vars
  /\ [](\A t \in AllTabs : \A i \in DOMAIN gv[t].writes :
          \A j \in DOMAIN gv[t].writes :
            (/\ Len(gv[t].writes) = inputs
             /\ gv[t].writes[i].op = "toggle" /\ gv[t].writes[j].op = "toggle"
             /\ gv[t].writes[i].id = gv[t].writes[j].id) =>
              gv[t].writes[i].achieved = gv[t].writes[j].achieved)

\* C26's case: the goal was toggled twice before the first toggle was
\* answered and both writes are done, their two loads in flight: the
\* stored flag is the negation of the one fetched, not the one fetched.
C26_Witness ==
  /\ inputs = 2
  /\ gv[1].writes = <<>> /\ Len(gv[1].loads) = 2
  /\ Len(gv[1].goals) = 1 /\ ~gv[1].goals[1].achieved
  /\ \E g \in user_goals : g.id = gv[1].goals[1].id /\ g.achieved

\* C27: the step that ends a handleSave either reports the save done, and
\* then what its last request wrote is in the store, the form is closed by
\* onSave, one load is started and no alert is raised; or reports an error,
\* and then the store is as it was, the alert is the error alert, the view
\* is as it was (no onSave), and the form's fields and the values of its
\* exercise list are as they were; an answer to a request of a save that
\* does not end it calls no onSave and raises no alert; and after the end the form, when
\* shown, is not loading.
C27_OnSaveIffAllSucceeded ==
  [][\A t \in AllTabs :
       /\ (sv[t].pc # "idle" /\ sv'[t].pc = "idle") =>
            /\ sv'[t].result \in {"saved", "error"}
            /\ wf'[t].mounted => ~wf'[t].loading
            /\ sv'[t].result = "saved" =>
                 /\ ~wv'[t].showForm /\ wv'[t].editingWorkout = <<>>
                 /\ Len(wv'[t].loads) = Len(wv[t].loads) + 1
                 /\ alertMsg' = alertMsg
                 /\ ~wf'[t].mounted
                 /\ sv[t].pc = "insert" =>
                      \A k \in DOMAIN sv[t].payload :
                        \E x \in workout_exercises' \ workout_exercises :
                          Plain(x) = Plain(sv[t].payload[k])
                 /\ sv[t].pc = "create" =>
                      \E w \in workouts' \ workouts : w.name = sv[t].name
                 /\ sv[t].pc = "delete" =>
                      ~\E x \in workout_exercises' :
                         x.workout_id = sv[t].workoutId
            /\ sv'[t].result = "error" =>
                 /\ store' = store
                 /\ alertMsg'[t] = "error"
                 /\ wv' = wv
                 /\ wf'[t].mounted = wf[t].mounted
                 /\ wf'[t].name = wf[t].name /\ wf'[t].date = wf[t].date
                 /\ wf'[t].durationMinutes = wf[t].durationMinutes
                 /\ wf'[t].workout = wf[t].workout
                 /\ Len(wf'[t].workoutExercises) = Len(wf[t].workoutExercises)
                 /\ \A k \in DOMAIN wf[t].workoutExercises :
                      Plain(wf'[t].workoutExercises[k])
                        = Plain(wf[t].workoutExercises[k])
       /\ (sv[t].pc # "idle" /\ sv'[t].pc # "idle"
           /\ sv'[t].log # sv[t].log) =>
            /\ wv' = wv
            /\ alertMsg' = alertMsg]_vars

\* C27's case: a save of the form of a new workout whose insert of the
\* exercises failed has ended: the error alert is up, the form is shown
\* with its name and its exercise, not loading, and no load was started.
C27_Witness ==
  /\ sv[1].pc = "idle" /\ sv[1].result = "error" /\ sv[1].mode = "create"
  /\ sv[1].log = <<"create", "insert">>
  /\ alertMsg[1] = "error"
  /\ wf[1].mounted /\ ~wf[1].loading /\ wf[1].name = "Arms"
  /\ Len(wf[1].workoutExercises) = 1
  /\ wv[1].showForm /\ wv[1].loads = <<>>

\* C28: when the insert of the exercises of a new workout's save fails,
\* the workout row that the save created stays in the store and has no
\* exercise row, and the form, when still shown, is still the form of a
\* new workout; a save from the form of a new workout takes the create
\* branch, whatever was saved from it before; and every create that is
\* not refused adds one workout row.
C28_FailedCreateLeavesWorkout ==
  [][\A t \in AllTabs :
       /\ (/\ sv[t].pc = "insert" /\ sv[t].mode = "create"
           /\ sv'[t].pc = "idle" /\ sv'[t].result = "error") =>
            /\ workouts' = workouts
            /\ \E w \in workouts' : w.id = sv[t].workoutId
            /\ ~\E x \in workout_exercises' : x.workout_id = sv[t].workoutId
            /\ sv[t].live => (wf'[t].mounted /\ wf'[t].workout = <<>>)
       /\ (/\ sv[t].pc = "idle" /\ sv'[t].pc # "idle"
           /\ wf[t].workout = <<>>) =>
            /\ sv'[t].pc = "create" /\ sv'[t].mode = "create"
       /\ (/\ sv[t].pc = "create"
           /\ (sv'[t].pc = "insert" \/ sv'[t].result = "saved")) =>
            /\ Cardinality(workouts') = Cardinality(workouts) + 1
            /\ workouts \subseteq workouts']_vars

\* C28's case: the form of a new workout was saved twice and the insert of
\* its exercise failed both times: the store holds two workouts with the
\* form's name and no exercise row, and the form is still shown, for a new
\* workout.
C28_Witness ==
  /\ sv[1].pc = "idle" /\ sv[1].result = "error"
  /\ sv[1].log = <<"create", "insert">>
  /\ wf[1].mounted /\ wf[1].workout = <<>> /\ wf[1].name = "Arms"
  /\ Cardinality({w \in workouts : w.name = "Arms"}) = 2
  /\ \A w \in workouts :
       w.name = "Arms" => ~\E x \in workout_exercises : x.workout_id = w.id

\* C29: the requests of a save of an existing workout are made in the
\* order update, delete, insert, each after the one before succeeded: a
\* save that ended with an error after its update made no other request
\* and left the workout's rows as they were, one that ended with an error
\* after its delete made no insert, and a save reported done made at
\* least the update and the delete.
C29_FailureStopsLaterSteps ==
  /\ [](\A t \in AllTabs :
          sv[t].mode = "update" =>
            /\ sv[t].log \in {<<>>, <<"update">>, <<"update", "delete">>,
                              <<"update", "delete", "insert">>}
            /\ sv[t].result = "saved" =>
                 sv[t].log \in {<<"update", "delete">>,
                                <<"update", "delete", "insert">>})
  /\ [][\A t \in AllTabs :
          (/\ sv[t].mode = "update" /\ sv[t].pc # "idle"
           /\ sv'[t].pc = "idle" /\ sv'[t].result = "error") =>
            /\ workout_exercises' = workout_exercises
            /\ workouts' = workouts
            /\ sv[t].pc = "update" => sv'[t].log = <<"update">>
            /\ sv[t].pc = "delete" => sv'[t].log = <<"update", "delete">>]_vars

\* C29's case: the update of a save of the listed workout failed: the
\* save ended with an error after the one request, and the workout's
\* exercise row is in the store while the form holds another list.
C29_Witness ==
  /\ sv[1].pc = "idle" /\ sv[1].mode = "update" /\ sv[1].result = "error"
  /\ sv[1].log = <<"update">>
  /\ wf[1].mounted /\ Len(wf[1].workoutExercises) = 2
  /\ workout_exercises = {SeedRow}


(***************************************************************************)
(* C30: the goal form of the Goals view.  While the form is hidden there   *)
(* is no goal being edited and the fields hold the blank default.  A       *)
(* submit whose request succeeded hides the form and resets the goal being *)
(* edited and the fields, and so does Cancel; a submit whose request       *)
(* failed leaves the form, its fields and the goal being edited as they    *)
(* were.  A New Goal click that opens the hidden form therefore opens it   *)
(* with no goal being edited, and a submit with no goal being edited       *)
(* sends an insert, never an update.                                       *)
(***************************************************************************)
C30_HiddenFormIsBlank ==
  /\ [](\A t \in AllTabs :
          ~gv[t].showForm =>
            gv[t].editingGoal = <<>> /\ gv[t].formData = BlankGoalForm)
  /\ [][\A t \in AllTabs :
          /\ \A i \in DOMAIN gv[t].writes :
               (/\ gv'[t].writes = Without(gv[t].writes, i)
                /\ gv[t].writes[i].op \in {"insert", "update"}) =>
                 IF Len(gv'[t].loads) > Len(gv[t].loads)
                   THEN /\ ~gv'[t].showForm
                        /\ gv'[t].editingGoal = <<>>
                        /\ gv'[t].formData = BlankGoalForm
                   ELSE /\ gv'[t].showForm = gv[t].showForm
                        /\ gv'[t].editingGoal = gv[t].editingGoal
                        /\ gv'[t].formData = gv[t].formData
                        /\ user_goals' = user_goals
          /\ (gv[t].showForm /\ ~gv'[t].showForm /\ gv'[t].writes = gv[t].writes) =>
               gv'[t] = [gv[t] EXCEPT !.showForm = FALSE, !.editingGoal = <<>>,
                                      !.formData = BlankGoalForm]
          /\ (~gv[t].showForm /\ gv'[t] = [gv[t] EXCEPT !.showForm = TRUE]) =>
               gv'[t].editingGoal = <<>> /\ gv'[t].formData = BlankGoalForm
          /\ Len(gv'[t].writes) > Len(gv[t].writes) =>
               LET w == gv'[t].writes[Len(gv'[t].writes)]
               IN  /\ w.op = "insert" => gv[t].editingGoal = <<>>
                   /\ w.op = "update" =>
                        /\ gv[t].editingGoal # <<>>
                        /\ w.id = gv[t].editingGoal[1].id]_vars

C30_Witness ==
  \E t \in AllTabs :
    /\ currentView[t] = "goals" /\ ~gv[t].loading
    /\ ~gv[t].showForm /\ gv[t].editingGoal = <<>>
    /\ Len(gv[t].goals) = 2
    /\ Cardinality(user_goals) = 2
    /\ SeedGoal \in user_goals
    /\ gv[t].writes = <<>>

====
